---- MODULE Spec2Model ----
(***************************************************************************)
(* Model of the CFDI extraction engine (cfdi_tool/extractor.py), of its    *)
(* older variant (scripts/cfdi_extractor.py) and of the batch drivers that *)
(* call it (main.py, main_tk.py, test_filepicker.py).                      *)
(*                                                                         *)
(* A parsed XML tree is a sequence of nodes in document (pre-)order; each  *)
(* node carries its namespace URI, its local tag, its depth (root = 0) and *)
(* its attributes.  The parent of a node is the closest node before it     *)
(* whose depth is one less.  Element queries follow ElementTree's          *)
(* ElementPath: 'p:Tag' selects children, './/p:Tag' selects descendants,  *)
(* 'p:A/p:B' selects the B children of the A children, all in document     *)
(* order.                                                                  *)
(*                                                                         *)
(* Python values are tagged records: None, str, int, float and the         *)
(* ValueError that float() raises.  The text of an attribute that the code *)
(* hands to float() is a sequence of characters, parsed as float() parses. *)
(***************************************************************************)
EXTENDS Integers, Sequences, FiniteSets, TLC

VARIABLES
    fs,        \* the file system: path -> file content
    op,        \* the last engine call: [name, impl, path]
    ret,       \* its outcome: [ok |-> TRUE, val |-> v] or [ok |-> FALSE, exc |-> e]
    invoked,   \* the section extractors the last procesar_cfdi_completo call entered, in order
    stdout,    \* the kind of the line cargar_cfdi printed in the last call
    self_namespaces, \* self.namespaces of the extractor instance
    historial, \* the procesar_cfdi_completo calls made on one instance, in order
    driver,    \* batch: which driver runs ("main", "tk", "flet"), or "none"
    archivos_xml,    \* batch: the listed files, in listing order
    pos,             \* batch: index of the next file of the loop
    todos_los_datos, \* batch: the records collected so far
    errores,         \* batch: the error counter (tk, flet)
    handed,          \* batch: the paths handed to procesar_cfdi_completo, in order
    phase,           \* batch: "idle", "loop", "export", "done", "crashed", "success", "error"
    root,      \* the parsed tree held by a caller of the section extractors
    salidas,   \* what that caller holds of their outputs: key -> outcome
    app        \* the state of a graphical application (main_tk.py, test_filepicker.py)

vars == <<fs, op, ret, invoked, stdout, self_namespaces, historial, driver,
          archivos_xml, pos, todos_los_datos, errores, handed, phase,
          root, salidas, app>>

engineVars == <<fs, op, ret, invoked, stdout, self_namespaces, historial>>
batchVars == <<driver, archivos_xml, pos, todos_los_datos, errores, handed, phase>>
callerVars == <<root, salidas, app>>

-----------------------------------------------------------------------------
(* Bounds of the model.                                                    *)

\* longest numeric attribute text enumerated over NumAlphabet
MaxTextLen == 2
\* most files in the listed folder of a batch
MaxFiles == 2
\* number of distinct clock readings datetime.now() may return
MaxClock == 2
\* most procesar_cfdi_completo calls made on one extractor instance
MaxCalls == 3
\* most records in the list handed to exportar_a_excel
MaxRecords == 3

-----------------------------------------------------------------------------
(* Python values.                                                          *)

PyNone == [t |-> "None"]
PyStr(s) == [t |-> "str", v |-> s]
PyInt(n) == [t |-> "int", v |-> n]
\* a float m * 10^(-e), normalised: no trailing zero digit in the fraction
PyFloat(m, e) == [t |-> "float", m |-> m, e |-> e]
ValueError == [t |-> "ValueError"]

Return(v) == [ok |-> TRUE, val |-> v]
Raise(e) == [ok |-> FALSE, exc |-> e]

-----------------------------------------------------------------------------
(* float(x) as Python computes it, for the texts the model enumerates:     *)
(* surrounding blanks are stripped, one optional sign, decimal digits with *)
(* at most one point and at least one digit; anything else is ValueError.  *)
(* float(0), the default of every numeric .get(), is 0.0.                  *)

Digits == {"0", "1", "2", "3", "4", "5", "6", "7", "8", "9"}

DigitVal(c) ==
    CASE c = "0" -> 0 [] c = "1" -> 1 [] c = "2" -> 2 [] c = "3" -> 3
      [] c = "4" -> 4 [] c = "5" -> 5 [] c = "6" -> 6 [] c = "7" -> 7
      [] c = "8" -> 8 [] c = "9" -> 9

RECURSIVE LStrip(_)
LStrip(s) == IF s # <<>> /\ Head(s) = " " THEN LStrip(Tail(s)) ELSE s

RECURSIVE RStrip(_)
RStrip(s) ==
    IF s # <<>> /\ s[Len(s)] = " " THEN RStrip(SubSeq(s, 1, Len(s) - 1)) ELSE s

Strip(s) == RStrip(LStrip(s))

\* the digits of s with the point removed, as a number
RECURSIVE DigitsValue(_, _)
DigitsValue(s, acc) ==
    IF s = <<>> THEN acc
    ELSE IF Head(s) = "." THEN DigitsValue(Tail(s), acc)
    ELSE DigitsValue(Tail(s), 10 * acc + DigitVal(Head(s)))

\* number of digits after the point (0 when there is no point)
FracDigits(s) ==
    IF \E i \in 1..Len(s) : s[i] = "."
    THEN Len(s) - (CHOOSE i \in 1..Len(s) : s[i] = ".")
    ELSE 0

RECURSIVE Normalise(_, _)
Normalise(m, e) ==
    IF m = 0 THEN PyFloat(0, 0)
    ELSE IF e > 0 /\ m % 10 = 0 THEN Normalise(m \div 10, e - 1)
    ELSE PyFloat(m, e)

ParseFloatText(text) ==
    LET s == Strip(text)
        signed == s # <<>> /\ Head(s) \in {"-", "+"}
        body == IF signed THEN Tail(s) ELSE s
        points == {i \in 1..Len(body) : body[i] = "."}
        digits == {i \in 1..Len(body) : body[i] \in Digits}
        wellFormed == /\ digits # {}
                      /\ Cardinality(points) <= 1
                      /\ points \cup digits = 1..Len(body)
        mag == DigitsValue(body, 0)
    IN  IF ~wellFormed THEN ValueError
        ELSE Normalise(IF signed /\ Head(s) = "-" THEN 0 - mag ELSE mag,
                       FracDigits(body))

\* float(x) with an int left as it is (the default 0 of a .get() kept
\* unconverted): a bug C4 must detect
float_int_unconverted(x) ==
    IF x.t = "int" THEN x ELSE ParseFloatText(x.v)

\* Python's float(x) for x an int or a str
float(x) ==
    IF x.t = "int" THEN PyFloat(x.v, 0) ELSE ParseFloatText(x.v)

-----------------------------------------------------------------------------
(* The namespace table of CFDIExtractor.__init__ (prefix -> URI).          *)

namespaces ==
    [cfdi |-> "http://www.sat.gob.mx/cfd/4",
     cfdi33 |-> "http://www.sat.gob.mx/cfd/3",
     tfd |-> "http://www.sat.gob.mx/TimbreFiscalDigital",
     pago20 |-> "http://www.sat.gob.mx/Pagos20",
     pago10 |-> "http://www.sat.gob.mx/Pagos",
     nomina12 |-> "http://www.sat.gob.mx/nomina12",
     cartaporte31 |-> "http://www.sat.gob.mx/CartaPorte31"]

-----------------------------------------------------------------------------
(* Parsed trees and ElementTree's queries on them.  An element is the      *)
(* index of its node in the tree; the root is element 1.                   *)

Node(ns, tag, depth, attrs) ==
    [ns |-> ns, tag |-> tag, depth |-> depth, attrs |-> attrs]

NoAttrs == <<>>

\* the descendants of element e, in document order
Descendants(doc, e) ==
    {j \in (e + 1)..Len(doc) :
        \A k \in (e + 1)..j : doc[k].depth > doc[e].depth}

\* the children of element e
Children(doc, e) ==
    {j \in Descendants(doc, e) : doc[j].depth = doc[e].depth + 1}

\* a set of elements as the list ElementTree returns: document order
RECURSIVE InDocOrder(_)
InDocOrder(S) ==
    IF S = {} THEN <<>>
    ELSE LET m == CHOOSE x \in S : \A y \in S : x <= y
         IN  <<m>> \o InDocOrder(S \ {m})

\* the queries are given self.namespaces to resolve a prefix
Matches(doc, j, prefix, tag) ==
    doc[j].ns = self_namespaces[prefix] /\ doc[j].tag = tag

\* e.findall('prefix:tag', namespaces)
findall_child(doc, e, prefix, tag) ==
    InDocOrder({j \in Children(doc, e) : Matches(doc, j, prefix, tag)})

\* e.findall('.//prefix:tag', namespaces)
findall_desc(doc, e, prefix, tag) ==
    InDocOrder({j \in Descendants(doc, e) : Matches(doc, j, prefix, tag)})

\* e.findall('p1:t1/p2:t2', namespaces)
findall_path2(doc, e, p1, t1, p2, t2) ==
    InDocOrder({j \in Descendants(doc, e) :
        /\ Matches(doc, j, p2, t2)
        /\ \E c \in Children(doc, e) :
              Matches(doc, c, p1, t1) /\ j \in Children(doc, c)})

\* find() is the first element of findall(), or None; an absent element is 0
NoElement == 0
First(list) == IF list = <<>> THEN NoElement ELSE list[1]

find_child(doc, e, prefix, tag) == First(findall_child(doc, e, prefix, tag))
find_desc(doc, e, prefix, tag) == First(findall_desc(doc, e, prefix, tag))

\* bool(element): ElementTree's Element.__bool__ is len(element) != 0, so an
\* element with no children is falsy; None is falsy
Truthy(doc, e) == e # NoElement /\ Children(doc, e) # {}

\* get with a given default taking the place of the attribute: a bug C16
\* must detect
get_default_wins(doc, e, name, default) ==
    IF default # PyNone THEN default
    ELSE IF name \in DOMAIN doc[e].attrs THEN PyStr(doc[e].attrs[name])
         ELSE default

\* element.get(name) and element.get(name, default)
get(doc, e, name, default) ==
    IF name \in DOMAIN doc[e].attrs THEN PyStr(doc[e].attrs[name]) ELSE default

-----------------------------------------------------------------------------
(* cfdi_tool/extractor.py: the section extractors.  A dict is a record, a  *)
(* list a sequence.  Each extractor yields Return(value), or               *)
(* Raise("ValueError") when one of its float() calls raises.               *)

\* an f-string or literal is the sequence of its pieces
Text(s) == PyStr(<<s>>)

\* IfNone with the legacy lookup taking priority: a bug C12 must detect
IfNone_legacy_first(a, b) == IF b # NoElement THEN b ELSE a

\* 'a if a is not None else b' over elements, as in "x = find(A); if x is None: x = find(B)"
IfNone(a, b) == IF a = NoElement THEN b ELSE a

\* "xs = findall(A); if not xs: xs = findall(B)"
IfEmpty(a, b) == IF a = <<>> THEN b ELSE a

\* traducir_tipo_comprobante with None for a code that is not in the table: a
\* bug C17 must detect
traducir_tipo_comprobante_get_without_default(tipo) ==
    CASE tipo = PyStr("I") -> Text("Ingreso (Factura)")
      [] tipo = PyStr("E") -> Text("Egreso (Nota de Credito)")
      [] tipo = PyStr("P") -> Text("Pago")
      [] tipo = PyStr("N") -> Text("Nomina")
      [] tipo = PyStr("T") -> Text("Traslado")
      [] OTHER -> PyNone

\* (the labels are written without their accents)
traducir_tipo_comprobante(tipo) ==
    CASE tipo = PyStr("I") -> Text("Ingreso (Factura)")
      [] tipo = PyStr("E") -> Text("Egreso (Nota de Credito)")
      [] tipo = PyStr("P") -> Text("Pago")
      [] tipo = PyStr("N") -> Text("Nomina")
      [] tipo = PyStr("T") -> Text("Traslado")
      [] OTHER -> PyStr(<<"Desconocido (",
                         IF tipo = PyNone THEN "None" ELSE tipo.v, ")">>)

\* the dict display of extraer_datos_generales, a float() failure kept in place
DatosGenerales(doc, metodo_pago_default, lugar_default) ==
    [version |-> get(doc, 1, "Version", PyNone),
     serie |-> get(doc, 1, "Serie", PyStr("Sin Serie")),
     folio |-> get(doc, 1, "Folio", PyStr("Sin Folio")),
     fecha |-> get(doc, 1, "Fecha", PyNone),
     subtotal |-> float(get(doc, 1, "SubTotal", PyInt(0))),
     total |-> float(get(doc, 1, "Total", PyInt(0))),
     moneda |-> get(doc, 1, "Moneda", PyStr("MXN")),
     tipo_comprobante |->
         traducir_tipo_comprobante(get(doc, 1, "TipoDeComprobante", PyNone)),
     metodo_pago |-> get(doc, 1, "MetodoPago", metodo_pago_default),
     lugar_expedicion |-> get(doc, 1, "LugarExpedicion", lugar_default)]

DatosGeneralesOutcome(datos) ==
    IF ValueError \in {datos.subtotal, datos.total}
    THEN Raise("ValueError") ELSE Return(datos)

extraer_datos_generales(doc) ==
    DatosGeneralesOutcome(
        DatosGenerales(doc, PyStr("Pago parcial"), PyStr("SIN_LUGAR")))

\* EmisorDict with a partial dict for an absent Emisor: a bug C2 must detect
EmisorDict_partial(doc, emisor) ==
    IF emisor # NoElement
    THEN [rfc |-> get(doc, emisor, "Rfc", PyNone),
          nombre |-> get(doc, emisor, "Nombre", PyStr("Sin Nombre")),
          regimen_fiscal |-> get(doc, emisor, "RegimenFiscal", PyNone)]
    ELSE [rfc |-> PyNone]

\* the dict extraer_emisor returns for the element found (or for none)
EmisorDict(doc, emisor) ==
    IF emisor # NoElement
    THEN [rfc |-> get(doc, emisor, "Rfc", PyNone),
          nombre |-> get(doc, emisor, "Nombre", PyStr("Sin Nombre")),
          regimen_fiscal |-> get(doc, emisor, "RegimenFiscal", PyNone)]
    ELSE [rfc |-> PyNone, nombre |-> PyNone, regimen_fiscal |-> PyNone]

extraer_emisor(doc) ==
    Return(EmisorDict(doc, IfNone(find_child(doc, 1, "cfdi", "Emisor"),
                                  find_child(doc, 1, "cfdi33", "Emisor"))))

\* the dict extraer_receptor returns for the element found (or for none)
ReceptorDict(doc, receptor) ==
    IF receptor # NoElement
    THEN [rfc |-> get(doc, receptor, "Rfc", PyNone),
          nombre |-> get(doc, receptor, "Nombre", PyStr("Sin Nombre")),
          uso_cfdi |-> get(doc, receptor, "UsoCFDI", PyNone),
          regimen_fiscal |-> get(doc, receptor, "RegimenFiscalReceptor", PyNone),
          domicilio_fiscal |-> get(doc, receptor, "DomicilioFiscalReceptor", PyNone),
          domicilio_fiscal_receptor |->
              get(doc, receptor, "DomicilioFiscalReceptor", PyNone)]
    ELSE [rfc |-> PyNone, nombre |-> PyNone, uso_cfdi |-> PyNone,
          regimen_fiscal |-> PyNone, domicilio_fiscal |-> PyNone,
          domicilio_fiscal_receptor |-> PyNone]

extraer_receptor(doc) ==
    Return(ReceptorDict(doc, IfNone(find_child(doc, 1, "cfdi", "Receptor"),
                                    find_child(doc, 1, "cfdi33", "Receptor"))))

\* one appended tax dict (Traslado or Retencion)
TaxEntry(doc, j) ==
    [base |-> float(get(doc, j, "Base", PyInt(0))),
     impuesto |-> get(doc, j, "Impuesto", PyNone),
     tipo_factor |-> get(doc, j, "TipoFactor", PyNone),
     tasa_cuota |-> float(get(doc, j, "TasaOCuota", PyInt(0))),
     importe |-> float(get(doc, j, "Importe", PyInt(0)))]

\* TaxEntries with an entry although no element was found: a bug C18 must
\* detect
TaxEntries_never_empty(doc, elements) ==
    IF elements = <<>> THEN <<TaxEntry(doc, 1)>>
    ELSE [i \in 1..Len(elements) |-> TaxEntry(doc, elements[i])]

TaxEntries(doc, elements) ==
    [i \in 1..Len(elements) |-> TaxEntry(doc, elements[i])]

\* some float() of the loop that built these entries raised
TaxEntriesRaise(entries) ==
    \E i \in 1..Len(entries) :
        ValueError \in {entries[i].base, entries[i].tasa_cuota, entries[i].importe}

ImpuestosOutcome(impuestos) ==
    IF TaxEntriesRaise(impuestos.traslados) \/ TaxEntriesRaise(impuestos.retenciones)
    THEN Raise("ValueError") ELSE Return(impuestos)

\* extraer_impuestos_concepto falling back to the 3.3 namespace as the
\* line-item lookup does: a change C22 must detect
extraer_impuestos_concepto_legacy_fallback(doc, concepto) ==
    ImpuestosOutcome(
        [traslados |->
             TaxEntries(doc, IfEmpty(findall_desc(doc, concepto, "cfdi", "Traslado"),
                                     findall_desc(doc, concepto, "cfdi33", "Traslado"))),
         retenciones |->
             TaxEntries(doc, IfEmpty(findall_desc(doc, concepto, "cfdi", "Retencion"),
                                     findall_desc(doc, concepto, "cfdi33", "Retencion")))])

\* extraer_impuestos_concepto searching from the root of the tree instead of
\* from the element it is given: a bug C21 must detect
extraer_impuestos_concepto_from_root(doc, concepto) ==
    ImpuestosOutcome(
        [traslados |->
             TaxEntries(doc, findall_desc(doc, 1, "cfdi", "Traslado")),
         retenciones |->
             TaxEntries(doc, findall_desc(doc, 1, "cfdi", "Retencion"))])

extraer_impuestos_concepto(doc, concepto) ==
    ImpuestosOutcome(
        [traslados |->
             TaxEntries(doc, findall_desc(doc, concepto, "cfdi", "Traslado")),
         retenciones |->
             TaxEntries(doc, findall_desc(doc, concepto, "cfdi", "Retencion"))])

\* the dict built for one Concepto; impuestos holds the outcome of the nested call
ConceptoData(doc, c) ==
    [clave_prod_serv |-> get(doc, c, "ClaveProdServ", PyNone),
     cantidad |-> float(get(doc, c, "Cantidad", PyInt(0))),
     clave_unidad |-> get(doc, c, "ClaveUnidad", PyNone),
     descripcion |-> get(doc, c, "Descripcion", PyNone),
     valor_unitario |-> float(get(doc, c, "ValorUnitario", PyInt(0))),
     importe |-> float(get(doc, c, "Importe", PyInt(0))),
     descuento |-> float(get(doc, c, "Descuento", PyInt(0))),
     objeto_imp |-> get(doc, c, "ObjetoImp", PyNone),
     impuestos |-> extraer_impuestos_concepto(doc, c)]

ConceptoRaises(x) ==
    \/ ValueError \in {x.cantidad, x.valor_unitario, x.importe, x.descuento}
    \/ ~x.impuestos.ok

\* the dict as stored in the list: impuestos is the returned value
ConceptoStored(x) == [x EXCEPT !.impuestos = x.impuestos.val]

ConceptosOutcome(data) ==
    IF \E i \in 1..Len(data) : ConceptoRaises(data[i])
    THEN Raise("ValueError")
    ELSE Return([i \in 1..Len(data) |-> ConceptoStored(data[i])])

ConceptosData(doc, conceptos) ==
    [i \in 1..Len(conceptos) |-> ConceptoData(doc, conceptos[i])]

extraer_conceptos(doc) ==
    ConceptosOutcome(ConceptosData(doc,
        IfEmpty(findall_path2(doc, 1, "cfdi", "Conceptos", "cfdi", "Concepto"),
                findall_path2(doc, 1, "cfdi33", "Conceptos", "cfdi33", "Concepto"))))

\* TimbreDict with the four keys, all None, for an absent element: a bug C19
\* must detect
TimbreDict_null_when_absent(doc, timbre) ==
    IF timbre # NoElement
    THEN [uuid |-> get(doc, timbre, "UUID", PyNone),
          fecha_timbrado |-> get(doc, timbre, "FechaTimbrado", PyNone),
          rfc_prov_certif |-> get(doc, timbre, "RfcProvCertif", PyNone),
          no_certificado_sat |-> get(doc, timbre, "NoCertificadoSAT", PyNone)]
    ELSE [uuid |-> PyNone, fecha_timbrado |-> PyNone, rfc_prov_certif |-> PyNone,
          no_certificado_sat |-> PyNone]

\* the dict extraer_timbre returns for the element found (or for none)
TimbreDict(doc, timbre) ==
    IF timbre # NoElement
    THEN [uuid |-> get(doc, timbre, "UUID", PyNone),
          fecha_timbrado |-> get(doc, timbre, "FechaTimbrado", PyNone),
          rfc_prov_certif |-> get(doc, timbre, "RfcProvCertif", PyNone),
          no_certificado_sat |-> get(doc, timbre, "NoCertificadoSAT", PyNone)]
    ELSE <<>>

extraer_timbre(doc) ==
    Return(TimbreDict(doc, find_desc(doc, 1, "tfd", "TimbreFiscalDigital")))

\* one appended TrasladoDR dict
TrasladoDREntry(doc, j) ==
    [base |-> float(get(doc, j, "BaseDR", PyInt(0))),
     impuesto |-> get(doc, j, "ImpuestoDR", PyNone),
     tipo_factor |-> get(doc, j, "TipoFactorDR", PyNone),
     tasa_cuota |-> float(get(doc, j, "TasaOCuotaDR", PyInt(0))),
     importe |-> float(get(doc, j, "ImporteDR", PyInt(0)))]

\* the TrasladoDR elements read inside the ImpuestosDR element found (or none)
TrasladosDRIn(doc, impuestos_dr) ==
    IF impuestos_dr = NoElement THEN <<>>
    ELSE IfEmpty(findall_desc(doc, impuestos_dr, "pago20", "TrasladoDR"),
                 findall_desc(doc, impuestos_dr, "pago10", "TrasladoDR"))

\* the TrasladoDR elements read for one DoctoRelacionado
TrasladosDROf(doc, d) ==
    TrasladosDRIn(doc, IfNone(find_desc(doc, d, "pago20", "ImpuestosDR"),
                              find_desc(doc, d, "pago10", "ImpuestosDR")))

TrasladoDREntries(doc, elements) ==
    [i \in 1..Len(elements) |-> TrasladoDREntry(doc, elements[i])]

\* the dict built for one DoctoRelacionado
DoctoRelacionado(doc, d) ==
    [id_documento |-> get(doc, d, "IdDocumento", PyNone),
     serie |-> get(doc, d, "Serie", PyNone),
     folio |-> get(doc, d, "Folio", PyNone),
     moneda |-> get(doc, d, "MonedaDR", PyNone),
     imp_saldo_ant |-> float(get(doc, d, "ImpSaldoAnt", PyInt(0))),
     imp_pagado |-> float(get(doc, d, "ImpPagado", PyInt(0))),
     imp_saldo_insoluto |-> float(get(doc, d, "ImpSaldoInsoluto", PyInt(0))),
     traslados_dr |-> TrasladoDREntries(doc, TrasladosDROf(doc, d))]

DoctoRaises(x) ==
    \/ ValueError \in {x.imp_saldo_ant, x.imp_pagado, x.imp_saldo_insoluto}
    \/ TaxEntriesRaise(x.traslados_dr)

\* DocsOf reading the DoctoRelacionado elements of the whole tree: a bug C23
\* must detect
DocsOf_whole_tree(doc, pago) ==
    IfEmpty(findall_desc(doc, 1, "pago20", "DoctoRelacionado"),
            findall_desc(doc, 1, "pago10", "DoctoRelacionado"))

\* the DoctoRelacionado elements read for one Pago
DocsOf(doc, pago) ==
    IfEmpty(findall_desc(doc, pago, "pago20", "DoctoRelacionado"),
            findall_desc(doc, pago, "pago10", "DoctoRelacionado"))

Doctos(doc, docs) == [i \in 1..Len(docs) |-> DoctoRelacionado(doc, docs[i])]

\* the dict built for one Pago
PagoData(doc, pago) ==
    [fecha_pago |-> get(doc, pago, "FechaPago", PyNone),
     forma_pago |-> get(doc, pago, "FormaDePagoP", PyNone),
     moneda |-> get(doc, pago, "MonedaP", PyNone),
     monto |-> float(get(doc, pago, "Monto", PyInt(0))),
     documentos_relacionados |-> Doctos(doc, DocsOf(doc, pago))]

PagoRaises(x) ==
    \/ x.monto = ValueError
    \/ \E i \in 1..Len(x.documentos_relacionados) :
          DoctoRaises(x.documentos_relacionados[i])

\* the Pago elements read in a Pagos container
PagosOf(doc, pagos) ==
    IfEmpty(findall_desc(doc, pagos, "pago20", "Pago"),
            findall_desc(doc, pagos, "pago10", "Pago"))

PagosData(doc, lista_pagos) ==
    [i \in 1..Len(lista_pagos) |-> PagoData(doc, lista_pagos[i])]

PagosOutcome(datos_pagos) ==
    IF \E i \in 1..Len(datos_pagos) : PagoRaises(datos_pagos[i])
    THEN Raise("ValueError") ELSE Return(datos_pagos)

extraer_complemento_pagos(doc, pagos) ==
    PagosOutcome(PagosData(doc, PagosOf(doc, pagos)))

\* "pagos = find(A); if not pagos: pagos = find(B)": the test is the truth
\* value of the element found, not whether one was found
IfFalsy(doc, a, b) == IF ~Truthy(doc, a) THEN b ELSE a

\* the Pagos container extraer_complementos settles on
PagosContainer(doc) ==
    IfFalsy(doc, find_desc(doc, 1, "pago20", "Pagos"),
                 find_desc(doc, 1, "pago10", "Pagos"))

\* complementos, given the outcome of extraer_complemento_pagos
WithPagos(payload) ==
    IF payload.ok THEN Return([pagos |-> payload.val]) ELSE payload

\* ComplementosFor with the key 'pagos' always set: a bug C7 must detect
ComplementosFor_always_pagos(doc, pagos) ==
    IF pagos # NoElement THEN WithPagos(extraer_complemento_pagos(doc, pagos))
    ELSE Return([pagos |-> <<>>])

ComplementosFor(doc, pagos) ==
    IF pagos # NoElement THEN WithPagos(extraer_complemento_pagos(doc, pagos))
    ELSE Return(<<>>)

extraer_complementos(doc) == ComplementosFor(doc, PagosContainer(doc))

-----------------------------------------------------------------------------
(* scripts/cfdi_extractor.py: the older variant of the extractor, where it *)
(* differs from cfdi_tool/extractor.py.  (extraer_conceptos,               *)
(* extraer_impuestos_concepto and extraer_timbre compute the same values.) *)

scripts_extraer_datos_generales(doc) ==
    DatosGeneralesOutcome(DatosGenerales(doc, PyStr("No especificado"), PyNone))

scripts_EmisorDict(doc, emisor) ==
    IF emisor = NoElement
    THEN [rfc |-> PyNone, nombre |-> PyNone, regimen_fiscal |-> PyNone]
    ELSE [rfc |-> get(doc, emisor, "Rfc", PyNone),
          nombre |-> get(doc, emisor, "Nombre", PyStr("Sin Nombre")),
          regimen_fiscal |-> get(doc, emisor, "RegimenFiscal", PyNone)]

scripts_extraer_emisor(doc) ==
    Return(scripts_EmisorDict(doc, IfNone(find_child(doc, 1, "cfdi", "Emisor"),
                                          find_child(doc, 1, "cfdi33", "Emisor"))))

scripts_ReceptorDict(doc, receptor) ==
    IF receptor = NoElement
    THEN <<>>
    ELSE [rfc |-> get(doc, receptor, "Rfc", PyNone),
          nombre |-> get(doc, receptor, "Nombre", PyStr("Sin Nombre")),
          uso_cfdi |-> get(doc, receptor, "UsoCFDI", PyNone),
          regimen_fiscal |-> get(doc, receptor, "RegimenFiscalReceptor", PyNone),
          domicilio_fiscal |-> get(doc, receptor, "DomicilioFiscalReceptor", PyNone)]

scripts_extraer_receptor(doc) ==
    Return(scripts_ReceptorDict(doc,
        IfNone(find_child(doc, 1, "cfdi", "Receptor"),
               find_child(doc, 1, "cfdi33", "Receptor"))))

\* the dict built for one DoctoRelacionado (no traslados_dr in this variant)
scripts_DoctoRelacionado(doc, d) ==
    [id_documento |-> get(doc, d, "IdDocumento", PyNone),
     serie |-> get(doc, d, "Serie", PyNone),
     folio |-> get(doc, d, "Folio", PyNone),
     moneda |-> get(doc, d, "MonedaDR", PyNone),
     imp_saldo_ant |-> float(get(doc, d, "ImpSaldoAnt", PyInt(0))),
     imp_pagado |-> float(get(doc, d, "ImpPagado", PyInt(0))),
     imp_saldo_insoluto |-> float(get(doc, d, "ImpSaldoInsoluto", PyInt(0)))]

scripts_DoctoRaises(x) ==
    ValueError \in {x.imp_saldo_ant, x.imp_pagado, x.imp_saldo_insoluto}

scripts_Doctos(doc, docs) ==
    [i \in 1..Len(docs) |-> scripts_DoctoRelacionado(doc, docs[i])]

scripts_PagoData(doc, pago) ==
    [fecha_pago |-> get(doc, pago, "FechaPago", PyNone),
     forma_pago |-> get(doc, pago, "FormaDePagoP", PyNone),
     moneda |-> get(doc, pago, "MonedaP", PyNone),
     monto |-> float(get(doc, pago, "Monto", PyInt(0))),
     documentos_relacionados |-> scripts_Doctos(doc, DocsOf(doc, pago))]

scripts_PagoRaises(x) ==
    \/ x.monto = ValueError
    \/ \E i \in 1..Len(x.documentos_relacionados) :
          scripts_DoctoRaises(x.documentos_relacionados[i])

scripts_PagosData(doc, lista_pagos) ==
    [i \in 1..Len(lista_pagos) |-> scripts_PagoData(doc, lista_pagos[i])]

scripts_PagosOutcome(resultados) ==
    IF \E i \in 1..Len(resultados) : scripts_PagoRaises(resultados[i])
    THEN Raise("ValueError") ELSE Return(resultados)

scripts_extraer_complemento_pagos(doc, pagos) ==
    scripts_PagosOutcome(scripts_PagosData(doc, PagosOf(doc, pagos)))

\* here the fallback is taken only when no pago20:Pagos element was found
scripts_PagosContainer(doc) ==
    IfNone(find_desc(doc, 1, "pago20", "Pagos"), find_desc(doc, 1, "pago10", "Pagos"))

scripts_ComplementosFor(doc, pagos) ==
    IF pagos # NoElement
    THEN WithPagos(scripts_extraer_complemento_pagos(doc, pagos))
    ELSE Return(<<>>)

scripts_extraer_complementos(doc) ==
    scripts_ComplementosFor(doc, scripts_PagosContainer(doc))

-----------------------------------------------------------------------------
(* Files, cargar_cfdi and procesar_cfdi_completo (both variants).          *)

Impls == {"cfdi_tool", "scripts"}

\* the characters of the namespace URIs and local names a root can have
Spelling(s) ==
    CASE s = "http://www.sat.gob.mx/cfd/4" ->
            <<"h", "t", "t", "p", ":", "/", "/", "w", "w", "w", ".", "s", "a", "t", ".", "g", "o", "b", ".", "m", "x", "/", "c", "f", "d", "/", "4">>
      [] s = "http://www.sat.gob.mx/cfd/3" ->
            <<"h", "t", "t", "p", ":", "/", "/", "w", "w", "w", ".", "s", "a", "t", ".", "g", "o", "b", ".", "m", "x", "/", "c", "f", "d", "/", "3">>
      [] s = "urn:factura" ->
            <<"u", "r", "n", ":", "f", "a", "c", "t", "u", "r", "a">>
      [] s = "Comprobante" ->
            <<"C", "o", "m", "p", "r", "o", "b", "a", "n", "t", "e">>
      [] s = "CFDI40" ->
            <<"C", "F", "D", "I", "4", "0">>
      [] s = "Factura" ->
            <<"F", "a", "c", "t", "u", "r", "a">>

Upper == <<"A", "B", "C", "D", "E", "F", "G", "H", "I", "J", "K", "L", "M",
           "N", "O", "P", "Q", "R", "S", "T", "U", "V", "W", "X", "Y", "Z">>
Lower == <<"a", "b", "c", "d", "e", "f", "g", "h", "i", "j", "k", "l", "m",
           "n", "o", "p", "q", "r", "s", "t", "u", "v", "w", "x", "y", "z">>

\* str.lower() on a sequence of characters
lower(text) ==
    [i \in 1..Len(text) |->
        IF \E k \in 1..Len(Upper) : Upper[k] = text[i]
        THEN Lower[CHOOSE k \in 1..Len(Upper) : Upper[k] = text[i]]
        ELSE text[i]]

\* sub in text, for two sequences of characters
In(sub, text) ==
    \E i \in 1..(Len(text) - Len(sub) + 1) :
        SubSeq(text, i, i + Len(sub) - 1) = sub

\* root.tag as ElementTree spells it: '{uri}local'
tag_of(node) == <<"{">> \o Spelling(node.ns) \o <<"}">> \o Spelling(node.tag)

\* a or b, for two values that are None or a str
Or(a, b) == IF a # PyNone /\ a.v # "" THEN a ELSE b

\* the inference from the lower-cased tag; 'x or y and z' is x or (y and z)
FromTag(impl, tag_lower) ==
    IF impl = "cfdi_tool"
    THEN IF \/ In(<<"c", "f", "d", "/", "4">>, tag_lower)
            \/ In(<<"c", "f", "d", "i">>, tag_lower) /\ In(<<"4">>, tag_lower)
         THEN PyStr("4.0")
         ELSE IF \/ In(<<"c", "f", "d", "/", "3">>, tag_lower)
                 \/ In(<<"c", "f", "d", "i">>, tag_lower) /\ In(<<"3">>, tag_lower)
              THEN PyStr("3.3")
              ELSE PyStr("Desconocida")
    ELSE IF In(<<"c", "f", "d", "/", "4">>, tag_lower) THEN PyStr("4.0")
         ELSE IF In(<<"c", "f", "d", "/", "3">>, tag_lower) THEN PyStr("3.3")
         ELSE PyStr("Desconocida")

\* 'if version: return version', else the inference
IfVersion(version, inferred) ==
    IF version # PyNone /\ version.v # "" THEN version ELSE inferred

\* detectar_version(root) of either variant
detectar_version(impl, doc) ==
    IfVersion(Or(get(doc, 1, "Version", PyNone), get(doc, 1, "version", PyNone)),
              FromTag(impl, lower(tag_of(doc[1]))))

MissingFile == [kind |-> "missing"]       \* os.path.exists() is False
MalformedFile == [kind |-> "malformed"]   \* ET.parse raises ET.ParseError
UnreadableFile == [kind |-> "unreadable"] \* ET.parse raises PermissionError
XmlFile(doc) == [kind |-> "xml", doc |-> doc]

Element(doc) == [t |-> "Element", doc |-> doc]

\* what the try block of cargar_cfdi ends with: the root, or the exception
TryLoad(file) ==
    CASE file.kind = "missing" -> Raise("FileNotFoundError")
      [] file.kind = "malformed" -> Raise("ParseError")
      [] file.kind = "unreadable" -> Raise("PermissionError")
      [] file.kind = "xml" -> Return(Element(file.doc))

\* the classes 'except Exception' catches among those the try block raises
ExceptionClasses == {"FileNotFoundError", "ParseError", "PermissionError"}

\* Handlers without the 'except Exception' clause: a bug C8 must detect
Handlers_parse_error_only(r) ==
    IF r.ok THEN [ret |-> r, out |-> "cargado correctamente"]
    ELSE IF r.exc = "ParseError"
         THEN [ret |-> Return(PyNone), out |-> "Error al parsear XML"]
         ELSE [ret |-> r, out |-> "nothing"]

\* Handlers with the two printed lines exchanged: a bug C9 must detect
Handlers_lines_exchanged(r) ==
    IF r.ok THEN [ret |-> r, out |-> "cargado correctamente"]
    ELSE IF r.exc = "ParseError"
         THEN [ret |-> Return(PyNone), out |-> "Error inesperado"]
    ELSE IF r.exc \in ExceptionClasses
         THEN [ret |-> Return(PyNone), out |-> "Error al parsear XML"]
         ELSE [ret |-> r, out |-> "nothing"]

\* the except clauses of cargar_cfdi, applied to what the try block ended
\* with: the first takes ET.ParseError, the second every other Exception;
\* both print a line and return None
Handlers(r) ==
    IF r.ok THEN [ret |-> r, out |-> "cargado correctamente"]
    ELSE IF r.exc = "ParseError"
         THEN [ret |-> Return(PyNone), out |-> "Error al parsear XML"]
    ELSE IF r.exc \in ExceptionClasses
         THEN [ret |-> Return(PyNone), out |-> "Error inesperado"]
         ELSE [ret |-> r, out |-> "nothing"]

\* cargar_cfdi: its outcome (ret) and the line it printed (out)
cargar_cfdi(file) == Handlers(TryLoad(file))

\* the keys of the result dict that call a section extractor, in the order
\* the dict display evaluates them
SectionOrder(impl) ==
    IF impl = "cfdi_tool"
    THEN <<"datos_generales", "emisor", "receptor", "conceptos", "timbre",
           "complementos", "impuestos">>
    ELSE <<"datos_generales", "emisor", "receptor", "conceptos", "timbre",
           "complementos">>

\* Section with the key 'impuestos' holding the taxes of the document's own
\* Impuestos element only: a bug C25 must detect
Section_impuestos_document_level(impl, key, doc) ==
    CASE key = "datos_generales" ->
            IF impl = "cfdi_tool" THEN extraer_datos_generales(doc)
            ELSE scripts_extraer_datos_generales(doc)
      [] key = "emisor" ->
            IF impl = "cfdi_tool" THEN extraer_emisor(doc)
            ELSE scripts_extraer_emisor(doc)
      [] key = "receptor" ->
            IF impl = "cfdi_tool" THEN extraer_receptor(doc)
            ELSE scripts_extraer_receptor(doc)
      [] key = "conceptos" -> extraer_conceptos(doc)
      [] key = "timbre" -> extraer_timbre(doc)
      [] key = "complementos" ->
            IF impl = "cfdi_tool" THEN extraer_complementos(doc)
            ELSE scripts_extraer_complementos(doc)
      [] key = "impuestos" ->
            IF find_child(doc, 1, "cfdi", "Impuestos") = NoElement
            THEN Return([traslados |-> <<>>, retenciones |-> <<>>])
            ELSE extraer_impuestos_concepto(doc, find_child(doc, 1, "cfdi", "Impuestos"))

\* the value of one key of the result dict: what its extractor gives for
\* the root
Section(impl, key, doc) ==
    CASE key = "datos_generales" ->
            IF impl = "cfdi_tool" THEN extraer_datos_generales(doc)
            ELSE scripts_extraer_datos_generales(doc)
      [] key = "emisor" ->
            IF impl = "cfdi_tool" THEN extraer_emisor(doc)
            ELSE scripts_extraer_emisor(doc)
      [] key = "receptor" ->
            IF impl = "cfdi_tool" THEN extraer_receptor(doc)
            ELSE scripts_extraer_receptor(doc)
      [] key = "conceptos" -> extraer_conceptos(doc)
      [] key = "timbre" -> extraer_timbre(doc)
      [] key = "complementos" ->
            IF impl = "cfdi_tool" THEN extraer_complementos(doc)
            ELSE scripts_extraer_complementos(doc)
      [] key = "impuestos" -> extraer_impuestos_concepto(doc, 1)

\* the outcome of every section extractor of the dict display, by position
Sections(impl, doc) ==
    [i \in 1..Len(SectionOrder(impl)) |-> Section(impl, SectionOrder(impl)[i], doc)]

\* how many extractors the dict display enters: all of them, or those up to
\* and including the first that raises
EnteredCount(outcomes) ==
    IF \A i \in 1..Len(outcomes) : outcomes[i].ok THEN Len(outcomes)
    ELSE CHOOSE i \in 1..Len(outcomes) :
            ~outcomes[i].ok /\ \A j \in 1..(i - 1) : outcomes[j].ok

\* the result dict, given the values the extractors returned
Resultado(order, outcomes, archivo_path, now) ==
    [k \in {"archivo", "fecha_procesamiento"} \cup {order[i] : i \in 1..Len(order)} |->
        CASE k = "archivo" -> archivo_path
          [] k = "fecha_procesamiento" -> now
          [] OTHER -> outcomes[CHOOSE i \in 1..Len(order) : order[i] = k].val]

\* procesar_cfdi_completo after a successful load (mostrar_resumen, called
\* before the return, only prints, and reads keys every result dict has)
Assemble(order, outcomes, archivo_path, now) ==
    [ret |-> IF EnteredCount(outcomes) = Len(outcomes) /\ outcomes[Len(outcomes)].ok
             THEN Return(Resultado(order, outcomes, archivo_path, now))
             ELSE Raise("ValueError"),
     invoked |-> SubSeq(order, 1, EnteredCount(outcomes)),
     out |-> "cargado correctamente"]

\* AfterLoad extracting only from a document detected as 4.0: a bug C14
\* must detect
AfterLoad_version_gated(impl, loaded, archivo_path, now) ==
    IF ~loaded.ret.ok \/ loaded.ret.val = PyNone
    THEN [ret |-> loaded.ret, invoked |-> <<>>, out |-> loaded.out]
    ELSE IF detectar_version(impl, loaded.ret.val.doc) # PyStr("4.0")
         THEN [ret |-> Return(PyNone), invoked |-> <<>>, out |-> loaded.out]
         ELSE Assemble(SectionOrder(impl), Sections(impl, loaded.ret.val.doc),
                       archivo_path, now)

\* procesar_cfdi_completo, given what cargar_cfdi did
AfterLoad(impl, loaded, archivo_path, now) ==
    IF ~loaded.ret.ok \/ loaded.ret.val = PyNone
    THEN [ret |-> loaded.ret, invoked |-> <<>>, out |-> loaded.out]
    ELSE Assemble(SectionOrder(impl), Sections(impl, loaded.ret.val.doc),
                  archivo_path, now)

\* procesar_cfdi_completo: [ret, invoked, out]; now is datetime.now()
procesar_cfdi_completo(impl, files, archivo_path, now) ==
    AfterLoad(impl, cargar_cfdi(files[archivo_path]), archivo_path, now)

-----------------------------------------------------------------------------
(* The documents the model feeds the engine: a root followed by one        *)
(* fragment per section, each fragment drawn from a few kinds.             *)

cfd4 == namespaces.cfdi
cfd3 == namespaces.cfdi33

Root(kind) ==
    CASE kind = "full4" ->
            Node(cfd4, "Comprobante", 0,
                 [Version |-> "4.0", Serie |-> "A", Folio |-> "1",
                  Fecha |-> "2025-12-30T12:00:00",
                  SubTotal |-> <<"1", "0", "0">>, Total |-> <<"1", "1", "6", "0">>,
                  Moneda |-> "MXN", TipoDeComprobante |-> "I"])
      [] kind = "bare4" -> Node(cfd4, "Comprobante", 0, NoAttrs)
      [] kind = "full3" ->
            Node(cfd3, "Comprobante", 0,
                 [Version |-> "3.3", Serie |-> "B", Folio |-> "2",
                  SubTotal |-> <<"5", "0", ".", "5">>, Total |-> <<"5", "8">>,
                  Moneda |-> "USD", TipoDeComprobante |-> "P",
                  MetodoPago |-> "PUE", LugarExpedicion |-> "01000"])
      [] kind = "bare3" -> Node(cfd3, "Comprobante", 0, NoAttrs)
      [] kind = "lower3" -> Node(cfd3, "Comprobante", 0, [version |-> "3.2"])
      [] kind = "empty4" -> Node(cfd4, "Comprobante", 0, [Version |-> ""])
      [] kind = "both4" ->
            Node(cfd4, "Comprobante", 0, [Version |-> "4.0", version |-> "3.3"])
      [] kind = "emptyboth4" ->
            Node(cfd4, "Comprobante", 0, [Version |-> "", version |-> "3.3"])
      [] kind = "named3" -> Node(cfd3, "CFDI40", 0, NoAttrs)
      [] kind = "other" -> Node("urn:factura", "Factura", 0, NoAttrs)
      [] kind = "partial4" ->
            Node(cfd4, "Comprobante", 0,
                 [Serie |-> "", Folio |-> "7", Total |-> <<"5">>, Moneda |-> "USD"])

RootKinds == {"full4", "bare4", "full3"}

\* further roots, for what is read from the root alone
HeaderKinds == {"bare3", "lower3", "empty4", "both4", "emptyboth4", "named3",
                "other", "partial4"}

Emisor4 == Node(cfd4, "Emisor", 1,
                [Rfc |-> "DEMO010101001", Nombre |-> "Empresa Demostrativa",
                 RegimenFiscal |-> "601"])
Emisor3 == Node(cfd3, "Emisor", 1, [Rfc |-> "LEGA010101AAA"])

EmisorFragment(kind) ==
    CASE kind = "none" -> <<>>
      [] kind = "e4" -> <<Emisor4>>
      [] kind = "e3" -> <<Emisor3>>
      [] kind = "e3e4" -> <<Emisor3, Emisor4>>
      [] kind = "bare4" -> <<Node(cfd4, "Emisor", 1, NoAttrs)>>

EmisorKinds == {"none", "e4", "e3", "e3e4", "bare4"}

Receptor4 == Node(cfd4, "Receptor", 1,
                  [Rfc |-> "XAXX010101000", Nombre |-> "Juan Perez",
                   UsoCFDI |-> "G03", RegimenFiscalReceptor |-> "616",
                   DomicilioFiscalReceptor |-> "01000"])
Receptor3 == Node(cfd3, "Receptor", 1, [Rfc |-> "LEGR010101BBB", UsoCFDI |-> "P01"])

ReceptorFragment(kind) ==
    CASE kind = "none" -> <<>>
      [] kind = "r4" -> <<Receptor4>>
      [] kind = "r3" -> <<Receptor3>>
      [] kind = "r3r4" -> <<Receptor3, Receptor4>>

ReceptorKinds == {"none", "r4", "r3", "r3r4"}

Concepto(ns, importe) ==
    Node(ns, "Concepto", 2,
         [ClaveProdServ |-> "01010101", Cantidad |-> <<"1">>, ClaveUnidad |-> "H87",
          Descripcion |-> "Servicio", ValorUnitario |-> importe,
          Importe |-> importe])

Traslado(ns, depth, importe) ==
    Node(ns, "Traslado", depth,
         [Base |-> <<"1", "0", "0">>, Impuesto |-> "002", TipoFactor |-> "Tasa",
          TasaOCuota |-> <<"0", ".", "1", "6">>, Importe |-> importe])

Retencion(ns, depth) ==
    Node(ns, "Retencion", depth,
         [Base |-> <<"1", "0", "0">>, Impuesto |-> "001", TipoFactor |-> "Tasa",
          TasaOCuota |-> <<"0", ".", "1">>, Importe |-> <<"1", "0">>])

ConceptosFragment(kind) ==
    CASE kind = "none" -> <<>>
      [] kind = "empty4" -> <<Node(cfd4, "Conceptos", 1, NoAttrs)>>
      [] kind = "one4" ->
            <<Node(cfd4, "Conceptos", 1, NoAttrs), Concepto(cfd4, <<"1", "0", "0">>)>>
      [] kind = "two4tax" ->
            <<Node(cfd4, "Conceptos", 1, NoAttrs),
              Concepto(cfd4, <<"1", "0", "0">>),
              Node(cfd4, "Impuestos", 3, NoAttrs),
              Node(cfd4, "Traslados", 4, NoAttrs),
              Traslado(cfd4, 5, <<"1", "6">>),
              Node(cfd4, "Retenciones", 4, NoAttrs),
              Retencion(cfd4, 5),
              Concepto(cfd4, <<"2", "0", "0">>),
              Traslado(cfd4, 3, <<"3", "2">>),
              Node(cfd4, "Impuestos", 1, [TotalImpuestosTrasladados |-> "48"]),
              Node(cfd4, "Traslados", 2, NoAttrs),
              Traslado(cfd4, 3, <<"4", "8">>)>>
      [] kind = "one3tax" ->
            <<Node(cfd3, "Conceptos", 1, NoAttrs),
              Concepto(cfd3, <<"7", "0">>),
              Node(cfd3, "Impuestos", 3, NoAttrs),
              Node(cfd3, "Traslados", 4, NoAttrs),
              Traslado(cfd3, 5, <<"1", "1", ".", "2">>)>>
      [] kind = "one4one3" ->
            <<Node(cfd4, "Conceptos", 1, NoAttrs),
              Concepto(cfd4, <<"1", "0", "0">>),
              Node(cfd3, "Conceptos", 1, NoAttrs),
              Concepto(cfd3, <<"7", "0">>)>>
      [] kind = "empty4legacy3" ->
            <<Node(cfd4, "Conceptos", 1, NoAttrs),
              Node(cfd3, "Conceptos", 1, NoAttrs),
              Concepto(cfd3, <<"7", "0">>)>>

ConceptosKinds == {"none", "empty4", "one4", "two4tax", "one3tax", "one4one3",
                   "empty4legacy3"}

Timbre ==
    Node(namespaces.tfd, "TimbreFiscalDigital", 2,
         [UUID |-> "1a3e0f9a-ec50-4020-bf93-33f613599acb",
          FechaTimbrado |-> "2025-12-30T12:05:00", RfcProvCertif |-> "SAT970701NN3"])

Pagos(prefix) == Node(namespaces[prefix], "Pagos", 2, [Version |-> "2.0"])

Pago(prefix, monto) ==
    Node(namespaces[prefix], "Pago", 3,
         [FechaPago |-> "2025-12-31T10:00:00", FormaDePagoP |-> "03",
          MonedaP |-> "MXN", Monto |-> monto])

Docto(prefix, id) ==
    Node(namespaces[prefix], "DoctoRelacionado", 4,
         [IdDocumento |-> id, Serie |-> "A", Folio |-> "1", MonedaDR |-> "MXN",
          ImpSaldoAnt |-> <<"1", "1", "6", "0">>, ImpPagado |-> <<"1", "1", "6", "0">>,
          ImpSaldoInsoluto |-> <<"0">>])

TrasladoDR(prefix) ==
    Node(namespaces[prefix], "TrasladoDR", 7,
         [BaseDR |-> <<"1", "0", "0", "0">>, ImpuestoDR |-> "002",
          TipoFactorDR |-> "Tasa", TasaOCuotaDR |-> <<"0", ".", "1", "6">>,
          ImporteDR |-> <<"1", "6", "0">>])

ComplementoFragment(kind) ==
    CASE kind = "none" -> <<>>
      [] kind = "timbre" -> <<Node(cfd4, "Complemento", 1, NoAttrs), Timbre>>
      [] kind = "p20empty" ->
            <<Node(cfd4, "Complemento", 1, NoAttrs), Pagos("pago20"), Timbre>>
      [] kind = "p10empty" ->
            <<Node(cfd4, "Complemento", 1, NoAttrs), Pagos("pago10")>>
      [] kind = "p20totales" ->
            <<Node(cfd4, "Complemento", 1, NoAttrs), Pagos("pago20"),
              Node(namespaces.pago20, "Totales", 3, [MontoTotalPagos |-> "1160"])>>
      [] kind = "p20pago" ->
            <<Node(cfd4, "Complemento", 1, NoAttrs), Pagos("pago20"),
              Node(namespaces.pago20, "Totales", 3, [MontoTotalPagos |-> "1160"]),
              Pago("pago20", <<"1", "1", "6", "0">>),
              Docto("pago20", "uuid-1"),
              Node(namespaces.pago20, "ImpuestosDR", 5, NoAttrs),
              Node(namespaces.pago20, "TrasladosDR", 6, NoAttrs),
              TrasladoDR("pago20"),
              Pago("pago20", <<"5">>),
              Docto("pago20", "uuid-2"),
              Timbre>>
      [] kind = "p10pago" ->
            <<Node(cfd3, "Complemento", 1, NoAttrs), Pagos("pago10"),
              Pago("pago10", <<"9", "9">>), Docto("pago10", "uuid-3")>>
      [] kind = "p20empty_p10pago" ->
            <<Node(cfd4, "Complemento", 1, NoAttrs), Pagos("pago20"),
              Pagos("pago10"), Pago("pago10", <<"9", "9">>)>>

ComplementoKinds == {"none", "timbre", "p20empty", "p10empty", "p20totales",
                     "p20pago", "p10pago", "p20empty_p10pago"}

Shape(r, e, rc, c, p) ==
    <<Root(r)>> \o EmisorFragment(e) \o ReceptorFragment(rc)
        \o ConceptosFragment(c) \o ComplementoFragment(p)

\* the sections of the document of tests/test_extractor.py
BaseKinds == <<"full4", "e4", "r4", "one4", "none">>

\* the shapes that differ from the test's document in at most two sections
KindTuples ==
    {k \in RootKinds \X EmisorKinds \X ReceptorKinds \X ConceptosKinds
              \X ComplementoKinds :
        Cardinality({i \in 1..5 : k[i] # BaseKinds[i]}) <= 2}

Shapes == {Shape(k[1], k[2], k[3], k[4], k[5]) : k \in KindTuples}

(* Numeric texts: every text over NumAlphabet up to MaxTextLen characters   *)
(* is put, one attribute at a time, in each attribute the code hands to    *)
(* float(); each such attribute is also removed.                           *)

NumAlphabet == {"1", ".", "-", " ", "x"}

NumTexts == UNION {[1..n -> NumAlphabet] : n \in 0..MaxTextLen}

\* <<tag, attribute>> of every attribute read through float()
NumSlots ==
    {<<"Comprobante", "SubTotal">>, <<"Comprobante", "Total">>,
     <<"Concepto", "Cantidad">>, <<"Concepto", "ValorUnitario">>,
     <<"Concepto", "Importe">>, <<"Concepto", "Descuento">>,
     <<"Traslado", "Base">>, <<"Traslado", "TasaOCuota">>, <<"Traslado", "Importe">>,
     <<"Retencion", "Base">>, <<"Retencion", "TasaOCuota">>,
     <<"Retencion", "Importe">>,
     <<"Pago", "Monto">>,
     <<"DoctoRelacionado", "ImpSaldoAnt">>, <<"DoctoRelacionado", "ImpPagado">>,
     <<"DoctoRelacionado", "ImpSaldoInsoluto">>,
     <<"TrasladoDR", "BaseDR">>, <<"TrasladoDR", "TasaOCuotaDR">>,
     <<"TrasladoDR", "ImporteDR">>}

WithAttr(attrs, name, text) ==
    [a \in DOMAIN attrs \cup {name} |-> IF a = name THEN text ELSE attrs[a]]

WithoutAttr(attrs, name) == [a \in DOMAIN attrs \ {name} |-> attrs[a]]

\* doc with the slot's attribute set to text on every element of the slot's tag
SetSlot(doc, slot, text) ==
    [i \in 1..Len(doc) |->
        IF doc[i].tag = slot[1]
        THEN [doc[i] EXCEPT !.attrs = WithAttr(@, slot[2], text)] ELSE doc[i]]

\* doc with the slot's attribute removed from every element of the slot's tag
ClearSlot(doc, slot) ==
    [i \in 1..Len(doc) |->
        IF doc[i].tag = slot[1]
        THEN [doc[i] EXCEPT !.attrs = WithoutAttr(@, slot[2])] ELSE doc[i]]

FullDoc == Shape("full4", "e4", "r4", "two4tax", "p20pago")

Docs ==
    Shapes
      \cup {SetSlot(FullDoc, s, x) : s \in NumSlots, x \in NumTexts}
      \cup {ClearSlot(FullDoc, s) : s \in NumSlots}

Contents ==
    {MissingFile, MalformedFile, UnreadableFile} \cup {XmlFile(d) : d \in Docs}

-----------------------------------------------------------------------------
(* Paths.  A file name has a stem and an extension; a path joins the input *)
(* folder and a name.                                                      *)

Name(stem, ext) == [stem |-> stem, ext |-> ext]
Path(name) == <<"input_dir", name>>

\* the paths handed to the engine on its own: one for the file, one beside it
EnginePaths == {Path(Name(1, "xml")), Path(Name(2, "xml"))}

\* os.path.join(output_dir, "reporte_cfdi.xlsx")
ruta_salida == <<"output_dir", Name("reporte_cfdi", "xlsx")>>

Clock == 1..MaxClock

-----------------------------------------------------------------------------
(* The engine called on its own: a file is in place and one method of a    *)
(* fresh extractor (of either variant) is called on it.                    *)

BatchIdle ==
    /\ driver = "none" /\ archivos_xml = <<>> /\ pos = 0
    /\ todos_los_datos = <<>> /\ errores = 0 /\ handed = <<>> /\ phase = "idle"

NoCall == [name |-> "none", impl |-> "none", path |-> Path(Name(0, "xml"))]

\* no tree is held, no output is held, no application runs
NoApp == [kind |-> "none"]

CallerIdle == root = PyNone /\ salidas = <<>> /\ app = NoApp

Init ==
    /\ \E c \in Contents, p \in EnginePaths :
          /\ p = Path(Name(1, "xml")) \/ c = XmlFile(FullDoc)
          /\ fs = [q \in EnginePaths |-> IF q = p THEN c ELSE MissingFile]
    /\ op = NoCall
    /\ ret = Return(PyNone)
    /\ invoked = <<>>
    /\ stdout = "nothing"
    /\ self_namespaces = namespaces
    /\ historial = <<>>
    /\ CallerIdle
    /\ BatchIdle

Call(name, impl, path) == [name |-> name, impl |-> impl, path |-> path]

CargarCfdi(impl, path) ==
    LET r == cargar_cfdi(fs[path])
    IN  /\ op = NoCall
        /\ op' = Call("cargar_cfdi", impl, path)
        /\ ret' = r.ret
        /\ stdout' = r.out
        /\ invoked' = <<>>
        /\ UNCHANGED <<callerVars, fs, self_namespaces, historial, batchVars>>

\* root = the tree ET.parse gives for the file at path; extraer_<key>(root)
Extraer(key, impl, path) ==
    /\ op = NoCall
    /\ fs[path].kind = "xml"
    /\ op' = Call(key, impl, path)
    /\ ret' = Section(impl, key, fs[path].doc)
    /\ stdout' = "nothing"
    /\ invoked' = <<>>
    /\ UNCHANGED <<callerVars, fs, self_namespaces, historial, batchVars>>

ExtraerDatosGenerales(impl, path) == Extraer("datos_generales", impl, path)
ExtraerEmisor(impl, path) == Extraer("emisor", impl, path)
ExtraerReceptor(impl, path) == Extraer("receptor", impl, path)
ExtraerConceptos(impl, path) == Extraer("conceptos", impl, path)
ExtraerTimbre(impl, path) == Extraer("timbre", impl, path)
ExtraerComplementos(impl, path) == Extraer("complementos", impl, path)
ExtraerImpuestosConcepto(impl, path) == Extraer("impuestos", impl, path)

\* detectar_version(root), root being the tree of the file at path
DetectarVersion(impl, path) ==
    /\ op = NoCall
    /\ fs[path].kind = "xml"
    /\ op' = Call("detectar_version", impl, path)
    /\ ret' = Return(detectar_version(impl, fs[path].doc))
    /\ stdout' = "nothing"
    /\ invoked' = <<>>
    /\ UNCHANGED <<callerVars, fs, self_namespaces, historial, batchVars>>

\* traducir_tipo_comprobante(root.get('TipoDeComprobante')), root being the
\* tree of the file at path
TraducirTipoComprobante(impl, path) ==
    /\ op = NoCall
    /\ fs[path].kind = "xml"
    /\ op' = Call("traducir_tipo_comprobante", impl, path)
    /\ ret' = Return(traducir_tipo_comprobante(
                        get(fs[path].doc, 1, "TipoDeComprobante", PyNone)))
    /\ stdout' = "nothing"
    /\ invoked' = <<>>
    /\ UNCHANGED <<callerVars, fs, self_namespaces, historial, batchVars>>

ProcesarCfdiCompleto(impl, path) ==
    \E now \in Clock :
        LET r == procesar_cfdi_completo(impl, fs, path, now)
        IN  /\ op = NoCall
            /\ op' = Call("procesar_cfdi_completo", impl, path)
            /\ ret' = r.ret
            /\ stdout' = r.out
            /\ invoked' = r.invoked
            /\ UNCHANGED <<callerVars, fs, self_namespaces, historial, batchVars>>

Next ==
    \E impl \in Impls, path \in EnginePaths :
        \/ CargarCfdi(impl, path)
        \/ ExtraerDatosGenerales(impl, path)
        \/ ExtraerEmisor(impl, path)
        \/ ExtraerReceptor(impl, path)
        \/ ExtraerConceptos(impl, path)
        \/ ExtraerTimbre(impl, path)
        \/ ExtraerComplementos(impl, path)
        \/ ExtraerImpuestosConcepto(impl, path)
        \/ DetectarVersion(impl, path)
        \/ TraducirTipoComprobante(impl, path)
        \/ ProcesarCfdiCompleto(impl, path)

Spec == Init /\ [][Next]_vars

-----------------------------------------------------------------------------
(* The batch drivers: main.main, CFDIApp.run_processing (main_tk.py) and   *)
(* CFDIProcessorApp.process_files (test_filepicker.py).  Each lists the    *)
(* input folder, keeps the names ending in '.xml' (case-insensitive) and   *)
(* hands each one to procesar_cfdi_completo of the cfdi_tool extractor.    *)
(* One step lists the folder, one step is one turn of the for loop, one    *)
(* step is what follows the loop up to the hand-over to exportar_a_excel.  *)
(* The input folder exists.  The listing is in stem order; contents are    *)
(* assigned to stems freely, so every arrangement of contents along the    *)
(* listing is covered.                                                     *)

Drivers == {"main", "tk", "flet"}

Exts == {"xml", "XML", "txt"}

\* f.lower().endswith('.xml')
EndsWithXml(name) == name.ext \in {"xml", "XML"}

\* [f for f in os.listdir(input_dir) if f.lower().endswith('.xml')]
XmlFilesIn(listing) == SelectSeq(listing, EndsWithXml)

\* a document shaped as the one of tests/test_extractor.py, and the same with a SubTotal
\* that is not a number
TestDoc == Shape("full4", "e4", "r4", "one4", "none")
BadSubTotalDoc == SetSlot(TestDoc, <<"Comprobante", "SubTotal">>, <<"x">>)

BatchContents ==
    {MalformedFile, UnreadableFile, XmlFile(TestDoc), XmlFile(BadSubTotalDoc)}

\* os.listdir(input_dir): the names in the folder
Listdir(files) ==
    LET names == {p[2] : p \in {q \in DOMAIN files : q[1] = "input_dir"}}
    IN  [i \in 1..Cardinality(names) |-> CHOOSE n \in names : n.stem = i]

\* bool(x) for what procesar_cfdi_completo returns: None and {} are falsy
PyBool(v) == v # PyNone /\ v # <<>>

InitBatch ==
    /\ driver \in Drivers
    /\ \E n \in 0..MaxFiles :
         \E exts \in [1..n -> Exts], contents \in [1..n -> BatchContents] :
            fs = [p \in {Path(Name(i, exts[i])) : i \in 1..n} \cup {ruta_salida} |->
                     IF p = ruta_salida THEN MissingFile ELSE contents[p[2].stem]]
    /\ op = NoCall
    /\ ret = Return(PyNone)
    /\ invoked = <<>>
    /\ stdout = "nothing"
    /\ self_namespaces = namespaces
    /\ historial = <<>>
    /\ CallerIdle
    /\ archivos_xml = <<>> /\ pos = 0 /\ todos_los_datos = <<>>
    /\ errores = 0 /\ handed = <<>> /\ phase = "idle"

\* the listing of the folder and the test for an empty list
Listar(d) ==
    /\ driver = d
    /\ phase = "idle"
    /\ archivos_xml' = XmlFilesIn(Listdir(fs))
    /\ phase' = IF archivos_xml' = <<>> THEN "done" ELSE "loop"
    /\ pos' = 1
    /\ todos_los_datos' = <<>>
    /\ errores' = 0
    /\ UNCHANGED <<callerVars, engineVars, driver, handed>>

\* main(): lines 32-60
main_listar == Listar("main")
\* run_processing(): lines 130-141
run_processing_listar == Listar("tk")
\* process_files(): lines 194-213
process_files_listar == Listar("flet")

\* the call of one turn of the loop and what it leaves in the engine
Procesar(ruta_completa, r) ==
    /\ op' = Call("procesar_cfdi_completo", "cfdi_tool", ruta_completa)
    /\ ret' = r.ret
    /\ stdout' = r.out
    /\ invoked' = r.invoked
    /\ handed' = Append(handed, ruta_completa)
    /\ UNCHANGED <<callerVars, fs, self_namespaces, historial, driver, archivos_xml>>

\* main(): one turn of "for nombre_archivo in archivos_xml"; nothing
\* catches what procesar_cfdi_completo raises, so main() ends there
main_procesar ==
    /\ driver = "main"
    /\ phase = "loop"
    /\ pos <= Len(archivos_xml)
    /\ \E now \in Clock :
         LET ruta_completa == Path(archivos_xml[pos])
             r == procesar_cfdi_completo("cfdi_tool", fs, ruta_completa, now)
         IN  /\ Procesar(ruta_completa, r)
             /\ IF ~r.ret.ok
                THEN /\ phase' = "crashed"
                     /\ UNCHANGED <<pos, todos_los_datos, errores>>
                ELSE /\ todos_los_datos' =
                           IF PyBool(r.ret.val)
                           THEN Append(todos_los_datos, r.ret.val)
                           ELSE todos_los_datos
                     /\ pos' = pos + 1
                     /\ UNCHANGED <<phase, errores>>

\* ProcesarContando with the exception handler not counting the file: a bug
\* C11 must detect
ProcesarContando_exception_uncounted(d) ==
    /\ driver = d
    /\ phase = "loop"
    /\ pos <= Len(archivos_xml)
    /\ \E now \in Clock :
         LET ruta_completa == Path(archivos_xml[pos])
             r == procesar_cfdi_completo("cfdi_tool", fs, ruta_completa, now)
         IN  /\ Procesar(ruta_completa, r)
             /\ IF r.ret.ok /\ PyBool(r.ret.val)
                THEN /\ todos_los_datos' = Append(todos_los_datos, r.ret.val)
                     /\ UNCHANGED errores
                ELSE /\ errores' = IF r.ret.ok THEN errores + 1 ELSE errores
                     /\ UNCHANGED todos_los_datos
             /\ pos' = pos + 1
             /\ UNCHANGED phase

\* one turn of the loop of the two applications: a falsy result and an
\* exception both count as an error, and the loop goes on
ProcesarContando(d) ==
    /\ driver = d
    /\ phase = "loop"
    /\ pos <= Len(archivos_xml)
    /\ \E now \in Clock :
         LET ruta_completa == Path(archivos_xml[pos])
             r == procesar_cfdi_completo("cfdi_tool", fs, ruta_completa, now)
         IN  /\ Procesar(ruta_completa, r)
             /\ IF r.ret.ok /\ PyBool(r.ret.val)
                THEN /\ todos_los_datos' = Append(todos_los_datos, r.ret.val)
                     /\ UNCHANGED errores
                ELSE /\ errores' = errores + 1
                     /\ UNCHANGED todos_los_datos
             /\ pos' = pos + 1
             /\ UNCHANGED phase

\* run_processing(): one turn of "for i, filename in enumerate(xml_files)"
run_processing_procesar == ProcesarContando("tk")
\* process_files(): one turn of "for i, nombre_archivo in enumerate(archivos_xml)"
process_files_procesar == ProcesarContando("flet")

\* after the loop: with no record the driver reports and returns, else it
\* hands todos_los_datos to exportar_a_excel
FinDelBucle(d) ==
    /\ driver = d
    /\ phase = "loop"
    /\ pos > Len(archivos_xml)
    /\ phase' = IF todos_los_datos = <<>> THEN "done" ELSE "export"
    /\ UNCHANGED <<callerVars, engineVars, driver, archivos_xml, pos, todos_los_datos,
                   errores, handed>>

\* main(): lines 69-73
main_fin == FinDelBucle("main")
\* run_processing(): lines 163-170
run_processing_fin == FinDelBucle("tk")
\* process_files(): lines 239-248
process_files_fin == FinDelBucle("flet")

-----------------------------------------------------------------------------
(* One extractor instance called several times, as the drivers call it:    *)
(* extractor = CFDIExtractor(), then procesar_cfdi_completo once per file. *)
(* Here the calls come in any order and a file may be processed again;     *)
(* after the first call the file just processed may be rewritten with      *)
(* another Version or version attribute on its root.  The clock advances   *)
(* by one reading per call.                                                *)

LegacyDoc == Shape("full3", "e3", "r3", "one3tax", "p10pago")

SessionContents ==
    {MissingFile, MalformedFile, XmlFile(TestDoc), XmlFile(BadSubTotalDoc),
     XmlFile(FullDoc), XmlFile(LegacyDoc)}

NoPath == Path(Name(0, "xml"))

InitSesion ==
    /\ fs \in [EnginePaths -> SessionContents]
    /\ \E impl \in Impls : op = Call("__init__", impl, NoPath)
    /\ ret = Return(PyNone)
    /\ invoked = <<>>
    /\ stdout = "nothing"
    /\ self_namespaces = namespaces
    /\ historial = <<>>
    /\ CallerIdle
    /\ BatchIdle

\* namespaces_after_call rebinding the cfdi prefix to the 3.3 namespace: a
\* bug C15 must detect
namespaces_after_call_rebound(table) == [table EXCEPT !.cfdi = table.cfdi33]

\* self.namespaces after a call: no method of CFDIExtractor assigns to
\* self.namespaces or to an entry of it, and ElementTree only reads the
\* mapping it is given
namespaces_after_call(table) == table

ProcesarEnSesion(path) ==
    LET r == procesar_cfdi_completo(op.impl, fs, path, Len(historial) + 1)
    IN  /\ op.name \in {"__init__", "procesar_cfdi_completo"}
        /\ Len(historial) < MaxCalls
        /\ op' = Call("procesar_cfdi_completo", op.impl, path)
        /\ ret' = r.ret
        /\ stdout' = r.out
        /\ invoked' = r.invoked
        /\ historial' = Append(historial,
                               [path |-> path, file |-> fs[path],
                                now |-> Len(historial) + 1, ret |-> r.ret])
        /\ self_namespaces' = namespaces_after_call(self_namespaces)
        /\ UNCHANGED <<callerVars, fs, batchVars>>

\* the values the root's Version and version attributes are rewritten to
VersionTexts == {"3.3", "4.0"}

WithRootAttrs(doc, attrs) == [doc EXCEPT ![1].attrs = attrs]

\* the file just processed is rewritten: one of the two attributes of its
\* root is set, or removed
ReescribirVersion(name) ==
    /\ op.name = "procesar_cfdi_completo"
    /\ Len(historial) = 1
    /\ fs[op.path].kind = "xml"
    /\ \E attrs \in {WithoutAttr(fs[op.path].doc[1].attrs, name)} \cup
                     {WithAttr(fs[op.path].doc[1].attrs, name, v) : v \in VersionTexts} :
          /\ attrs # fs[op.path].doc[1].attrs
          /\ fs' = [fs EXCEPT ![op.path] = XmlFile(WithRootAttrs(fs[op.path].doc, attrs))]
    /\ UNCHANGED <<callerVars, op, ret, invoked, stdout, self_namespaces, historial, batchVars>>

NextSesion ==
    \/ \E path \in EnginePaths : ProcesarEnSesion(path)
    \/ \E name \in {"Version", "version"} : ReescribirVersion(name)

SpecSesion == InitSesion /\ [][NextSesion]_vars

-----------------------------------------------------------------------------
(* The engine called on its own, on the shapes and on the test's document  *)
(* with each of the further roots and with each TipoDeComprobante.         *)

\* the five codes of the table of traducir_tipo_comprobante, and others
TipoCodes == {"I", "E", "P", "N", "T", "Z", "i", ""}

HeaderDocs ==
    {Shape(k, "e4", "r4", "one4", "none") : k \in HeaderKinds}
      \cup {WithRootAttrs(TestDoc, WithAttr(TestDoc[1].attrs, "TipoDeComprobante", c)) :
                c \in TipoCodes}
      \cup {WithRootAttrs(TestDoc, WithoutAttr(TestDoc[1].attrs, "TipoDeComprobante"))}
      \cup {SetSlot(TestDoc, <<"Comprobante", n>>, x) :
                n \in {"SubTotal", "Total"}, x \in NumTexts}

\* the test's document stamped: a stamp without attributes in the
\* Complemento, and a stamp directly under the root
StampedDocs ==
    {TestDoc \o <<Node(cfd4, "Complemento", 1, NoAttrs),
                  Node(namespaces.tfd, "TimbreFiscalDigital", 2, NoAttrs)>>,
     TestDoc \o <<Node(namespaces.tfd, "TimbreFiscalDigital", 1,
                       [UUID |-> "1a3e0f9a-ec50-4020-bf93-33f613599acb"])>>}

ShapeContents == {MissingFile} \cup {XmlFile(d) : d \in Shapes \cup HeaderDocs \cup StampedDocs}

InitShapes ==
    /\ \E c \in ShapeContents :
          fs = [q \in EnginePaths |-> IF q = Path(Name(1, "xml")) THEN c ELSE MissingFile]
    /\ op = NoCall
    /\ ret = Return(PyNone)
    /\ invoked = <<>>
    /\ stdout = "nothing"
    /\ self_namespaces = namespaces
    /\ historial = <<>>
    /\ CallerIdle
    /\ BatchIdle

SpecShapes == InitShapes /\ [][Next]_vars

-----------------------------------------------------------------------------
(* cfdi_tool/excel_writer.py: exportar_a_excel(lista_datos_cfdi,           *)
(* ruta_salida).  A row is the sequence of its <<column, value>> pairs, a  *)
(* workbook the sequence of its sheets.  The list handed over is           *)
(* todos_los_datos, as in the drivers; the records are those the cfdi_tool *)
(* extractor assembles.                                                    *)

\* d.get(key, default), d a dict
dict_get(d, key, default) == IF key \in DOMAIN d THEN d[key] ELSE default

\* "xs[0].get(key) if xs else default"
first_get(xs, key, default) ==
    IF xs # <<>> THEN dict_get(xs[1], key, PyNone) ELSE default

\* "xs[0] if xs else {}"
first_or_empty(xs) == IF xs # <<>> THEN xs[1] ELSE <<>>

RECURSIVE Flatten(_)
Flatten(lists) ==
    IF lists = <<>> THEN <<>> ELSE lists[1] \o Flatten(Tail(lists))

\* uuid = datos.get('timbre', {}).get('uuid', 'SIN_UUID')
uuid_of(datos) == dict_get(dict_get(datos, "timbre", <<>>), "uuid", PyStr("SIN_UUID"))

\* datos.get(section, {}).get(key)
section_get(datos, section, key) ==
    dict_get(dict_get(datos, section, <<>>), key, PyNone)

fila_gen(datos) ==
    <<<<"UUID", uuid_of(datos)>>,
      <<"Fecha", section_get(datos, "datos_generales", "fecha")>>,
      <<"Tipo Comprobante", section_get(datos, "datos_generales", "tipo_comprobante")>>,
      <<"Metodo de Pago", section_get(datos, "datos_generales", "metodo_pago")>>,
      <<"Serie", section_get(datos, "datos_generales", "serie")>>,
      <<"Folio", section_get(datos, "datos_generales", "folio")>>,
      <<"Subtotal", section_get(datos, "datos_generales", "subtotal")>>,
      <<"tasa_cuota",
        first_get(dict_get(dict_get(datos, "impuestos", <<>>), "traslados", <<>>),
                  "tasa_cuota", PyStr("SIN_TASA"))>>,
      <<"importe",
        first_get(dict_get(dict_get(datos, "impuestos", <<>>), "traslados", <<>>),
                  "importe", PyStr("SIN_IMPORTE"))>>,
      <<"Total", section_get(datos, "datos_generales", "total")>>,
      <<"Moneda", section_get(datos, "datos_generales", "moneda")>>,
      <<"Descripcion",
        dict_get(first_or_empty(dict_get(datos, "conceptos", <<>>)),
                 "descripcion", PyNone)>>,
      <<"Emisor RFC", section_get(datos, "emisor", "rfc")>>,
      <<"Emisor Nombre", section_get(datos, "emisor", "nombre")>>,
      <<"Receptor RFC", section_get(datos, "receptor", "rfc")>>,
      <<"Receptor Nombre", section_get(datos, "receptor", "nombre")>>,
      <<"Uso CFDI", section_get(datos, "receptor", "uso_cfdi")>>,
      <<"RegimenFiscalReceptor", section_get(datos, "receptor", "regimen_fiscal")>>,
      <<"lugar_expedicion", section_get(datos, "datos_generales", "lugar_expedicion")>>,
      <<"receptor_domicilio_fiscal_receptor",
        section_get(datos, "receptor", "domicilio_fiscal_receptor")>>>>

fila_con(uuid, concepto) ==
    <<<<"UUID_CFDI", uuid>>,
      <<"ClaveProdServ", dict_get(concepto, "clave_prod_serv", PyNone)>>,
      <<"Descripcion", dict_get(concepto, "descripcion", PyNone)>>,
      <<"Cantidad", dict_get(concepto, "cantidad", PyNone)>>,
      <<"ClaveUnidad", dict_get(concepto, "clave_unidad", PyNone)>>,
      <<"ValorUnitario", dict_get(concepto, "valor_unitario", PyNone)>>,
      <<"Importe", dict_get(concepto, "importe", PyNone)>>,
      <<"Descuento", dict_get(concepto, "descuento", PyNone)>>>>

\* primer_traslado is the first of doc_rel's traslados_dr, or {}
fila_doc_rel(uuid, uuid_pago, doc_rel, primer_traslado) ==
    <<<<"UUID_CFDI", uuid>>,
      <<"UUID_Pago", uuid_pago>>,
      <<"IdDocumento", dict_get(doc_rel, "id_documento", PyNone)>>,
      <<"Serie", dict_get(doc_rel, "serie", PyNone)>>,
      <<"Folio", dict_get(doc_rel, "folio", PyNone)>>,
      <<"MonedaDR", dict_get(doc_rel, "moneda", PyNone)>>,
      <<"ImpSaldoAnt", dict_get(doc_rel, "imp_saldo_ant", PyNone)>>,
      <<"ImpPagado", dict_get(doc_rel, "imp_pagado", PyNone)>>,
      <<"ImpSaldoInsoluto", dict_get(doc_rel, "imp_saldo_insoluto", PyNone)>>,
      <<"BaseDR", dict_get(primer_traslado, "base", PyNone)>>,
      <<"TasaOCuotaDR", dict_get(primer_traslado, "tasa_cuota", PyNone)>>,
      <<"ImporteDR", dict_get(primer_traslado, "importe", PyNone)>>>>

\* the rows appended to filas_conceptos for one record
filas_conceptos_de(uuid, conceptos) ==
    [k \in 1..Len(conceptos) |-> fila_con(uuid, conceptos[k])]

\* the rows appended for one pago of a record
filas_de_pago(uuid, uuid_pago, docs) ==
    [k \in 1..Len(docs) |->
        fila_doc_rel(uuid, uuid_pago, docs[k],
                     first_or_empty(dict_get(docs[k], "traslados_dr", <<>>)))]

filas_de_pagos(uuid, pagos) ==
    Flatten([p \in 1..Len(pagos) |->
        filas_de_pago(uuid, dict_get(pagos[p], "uuid", uuid),
                      dict_get(pagos[p], "documentos_relacionados", <<>>))])

\* the rows appended to filas_documentos_relacionados for one record
filas_documentos_de(uuid, complementos) ==
    IF "pagos" \in DOMAIN complementos
    THEN filas_de_pagos(uuid, complementos["pagos"]) ELSE <<>>

filas_general(lista) == [i \in 1..Len(lista) |-> fila_gen(lista[i])]

\* filas_conceptos with only the first line item of each record: a bug C20
\* must detect
filas_conceptos_first_only(lista) ==
    Flatten([i \in 1..Len(lista) |->
        filas_conceptos_de(uuid_of(lista[i]),
                           IF dict_get(lista[i], "conceptos", <<>>) = <<>> THEN <<>>
                           ELSE <<dict_get(lista[i], "conceptos", <<>>)[1]>>)])

filas_conceptos(lista) ==
    Flatten([i \in 1..Len(lista) |->
        filas_conceptos_de(uuid_of(lista[i]), dict_get(lista[i], "conceptos", <<>>))])

filas_documentos_relacionados(lista) ==
    Flatten([i \in 1..Len(lista) |->
        filas_documentos_de(uuid_of(lista[i]), dict_get(lista[i], "complementos", <<>>))])

Sheet(name, rows) == [name |-> name, rows |-> rows]

\* what the 'with pd.ExcelWriter(...)' block writes
Workbook(general, conceptos, documentos) ==
    [kind |-> "xlsx",
     sheets |-> <<Sheet("CFDI_General", general), Sheet("Conceptos", conceptos)>>
                  \o IF documentos # <<>>
                     THEN <<Sheet("Documentos Relacionados", documentos)>>
                     ELSE <<>>]

\* after the loop: nothing is written for no rows; else the workbook is
\* written, or the exception of the write is caught and printed
Escribir(general, workbook, before, write_ok) ==
    IF general = <<>>
    THEN [ret |-> Return(PyNone), out |-> "No hay datos generales para exportar",
          file |-> before]
    ELSE IF write_ok
         THEN [ret |-> Return(PyNone), out |-> "Archivo guardado", file |-> workbook]
         ELSE [ret |-> Return(PyNone), out |-> "Error al escribir el archivo Excel",
               file |-> before]

\* exportar_a_excel: [ret, out, file]; before is the file at ruta_salida,
\* write_ok whether the write goes through
exportar_a_excel(lista_datos_cfdi, before, write_ok) ==
    Escribir(filas_general(lista_datos_cfdi),
             Workbook(filas_general(lista_datos_cfdi),
                      filas_conceptos(lista_datos_cfdi),
                      filas_documentos_relacionados(lista_datos_cfdi)),
             before, write_ok)

\* the hand-over to exportar_a_excel and the report the driver ends with
Exportar(d, r, report) ==
    /\ driver = d
    /\ phase = "export"
    /\ op' = Call("exportar_a_excel", "cfdi_tool", ruta_salida)
    /\ ret' = r.ret
    /\ stdout' = r.out
    /\ invoked' = <<>>
    /\ fs' = [fs EXCEPT ![ruta_salida] = r.file]
    /\ phase' = report
    /\ UNCHANGED <<callerVars, self_namespaces, historial, driver, archivos_xml, pos,
                   todos_los_datos, errores, handed>>

\* the import of exportar_a_excel failed (pandas or openpyxl is missing):
\* the function is not called
NoExportado(d, report) ==
    /\ driver = d
    /\ phase = "export"
    /\ phase' = report
    /\ UNCHANGED <<callerVars, engineVars, driver, archivos_xml, pos, todos_los_datos,
                   errores, handed>>

\* main(): lines 75-85; main() reports nothing after the export
main_exportar ==
    \/ \E write_ok \in BOOLEAN :
          Exportar("main",
                   exportar_a_excel(todos_los_datos, fs[ruta_salida], write_ok), "done")
    \/ NoExportado("main", "done")

\* Exportar ending in the error report when exportar_a_excel printed that
\* the write failed: what C27 expects of the drivers
ExportarInformando_write_checked(d) ==
    \E write_ok \in BOOLEAN :
        Exportar(d, exportar_a_excel(todos_los_datos, fs[ruta_salida], write_ok),
                 IF write_ok THEN "success" ELSE "error")

\* the two applications: the call is followed by the success report
\* whatever exportar_a_excel did, since it returns None and raises nothing
\* when the write fails; only an exception leaving the call would lead to
\* the 'except Exception' of the driver and its error report
ExportarInformando(d) ==
    \E write_ok \in BOOLEAN :
        Exportar(d, exportar_a_excel(todos_los_datos, fs[ruta_salida], write_ok),
                 IF exportar_a_excel(todos_los_datos, fs[ruta_salida], write_ok).ret.ok
                 THEN "success" ELSE "error")

\* run_processing(): lines 170-181 (the import of line 14 succeeded, or the
\* application would have exited at line 17)
run_processing_exportar == ExportarInformando("tk")

\* process_files(): lines 247-259; exportar_a_excel is None when the import
\* of line 14 failed, and the ImportError raised then is reported as an error
process_files_exportar ==
    \/ ExportarInformando("flet")
    \/ NoExportado("flet", "error")

NextBatch ==
    \/ main_listar
    \/ main_procesar
    \/ main_fin
    \/ main_exportar
    \/ run_processing_listar
    \/ run_processing_procesar
    \/ run_processing_fin
    \/ run_processing_exportar
    \/ process_files_listar
    \/ process_files_procesar
    \/ process_files_fin
    \/ process_files_exportar

SpecBatch == InitBatch /\ [][NextBatch]_vars

-----------------------------------------------------------------------------
(* main_tk.py: the Tk application.  app holds the attributes of the App    *)
(* instance that the handlers read and write, the folder dialog that is    *)
(* open (askdirectory runs an event loop of its own, in which callbacks    *)
(* queued with after() run), the callbacks queued by final_update, and the *)
(* number of run_processing threads that were started and have not yet     *)
(* issued their final update.  The thread itself is the batch of the "tk"  *)
(* driver; phase is "stopped" while no thread runs.  The model follows one *)
(* thread: were a second one started beside it, phase becomes "overlap"    *)
(* and the threads are followed no further.                                *)

MaxRuns == 2

\* the folders the user can pick as input: empty, one good file, one file
\* that is not XML, a good file and one whose SubTotal is not a number
AppFolderContents ==
    {<<>>, <<XmlFile(TestDoc)>>, <<MalformedFile>>,
     <<XmlFile(TestDoc), XmlFile(BadSubTotalDoc)>>}

AppFolder(cs) ==
    [p \in {Path(Name(i, "xml")) : i \in 1..Len(cs)} \cup {ruta_salida} |->
        IF p = ruta_salida THEN MissingFile ELSE cs[p[2].stem]]

\* App.__init__ and create_widgets
TkApp ==
    [kind |-> "tk", input_path |-> "", output_path |-> "",
     is_processing |-> FALSE, process_finished |-> FALSE,
     btn_process |-> "disabled", dialog |-> "none", after |-> <<>>,
     workers |-> 0, runs |-> 0, handler |-> "none"]

InitApp(d, a) ==
    /\ driver = d
    /\ \E cs \in AppFolderContents : fs = AppFolder(cs)
    /\ op = NoCall
    /\ ret = Return(PyNone)
    /\ invoked = <<>>
    /\ stdout = "nothing"
    /\ self_namespaces = namespaces
    /\ historial = <<>>
    /\ root = PyNone /\ salidas = <<>> /\ app = a
    /\ archivos_xml = <<>> /\ pos = 0 /\ todos_los_datos = <<>>
    /\ errores = 0 /\ handed = <<>> /\ phase = "stopped"

InitTk == InitApp("tk", TkApp)

\* check_ready with the process_finished test left out: a bug C28 must detect
check_ready_ignores_finished(a) ==
    [a EXCEPT !.btn_process =
        IF a.input_path # "" /\ a.output_path # "" /\ ~a.is_processing
        THEN "normal" ELSE "disabled"]

check_ready(a) ==
    [a EXCEPT !.btn_process =
        IF a.input_path # "" /\ a.output_path # "" /\ ~a.is_processing
           /\ ~a.process_finished
        THEN "normal" ELSE "disabled"]

\* what the user can return from askdirectory: nothing (cancel) or a folder
Chosen(which) == {"", which}

\* what follows askdirectory in browse_input and browse_output
browse_chosen(a, field, folder) ==
    IF folder # ""
    THEN check_ready([a EXCEPT ![field] = folder, !.process_finished = FALSE])
    ELSE a

\* a step of the event loop that touches the application only
AppStep(a) ==
    /\ app' = a
    /\ UNCHANGED <<engineVars, batchVars, root, salidas>>

\* browse_input, up to the call of askdirectory
browse_input_open ==
    /\ app.dialog = "none"
    /\ AppStep([app EXCEPT !.dialog = "input"])

\* browse_input, from the return of askdirectory
browse_input ==
    /\ app.dialog = "input"
    /\ \E folder \in Chosen("input_dir") :
          AppStep([browse_chosen(app, "input_path", folder) EXCEPT
                      !.dialog = "none", !.handler = "browse_input"])

browse_output_open ==
    /\ app.dialog = "none"
    /\ AppStep([app EXCEPT !.dialog = "output"])

browse_output ==
    /\ app.dialog = "output"
    /\ \E folder \in Chosen("output_dir") :
          AppStep([browse_chosen(app, "output_path", folder) EXCEPT
                      !.dialog = "none", !.handler = "browse_output"])

\* a batch starts: its locals are fresh; beside a running one it is not followed
StartBatch ==
    /\ phase' = IF phase = "stopped" THEN "idle" ELSE "overlap"
    /\ archivos_xml' = <<>> /\ pos' = 0 /\ todos_los_datos' = <<>>
    /\ errores' = 0 /\ handed' = <<>>
    /\ UNCHANGED <<engineVars, driver, root, salidas>>

\* start_processing_thread with the flag and the button left as they were:
\* a bug C29 must detect
start_processing_thread_button_left_enabled(a) ==
    [a EXCEPT !.workers = @ + 1, !.runs = @ + 1,
              !.handler = "start_processing_thread"]

\* the attributes after start_processing_thread; Thread(...).start() adds a worker
start_processing_thread(a) ==
    [a EXCEPT !.is_processing = TRUE, !.btn_process = "disabled",
              !.workers = @ + 1, !.runs = @ + 1,
              !.handler = "start_processing_thread"]

\* the click on btn_process: Tk delivers it only while the button is enabled
\* and no folder dialog holds the input
StartProcessingThread ==
    /\ app.btn_process = "normal"
    /\ app.dialog = "none"
    /\ app.runs < MaxRuns
    /\ app' = start_processing_thread(app)
    /\ StartBatch

\* os.listdir raises (the folder is gone): the 'except Exception' of the
\* driver is entered and the run ends with the error report
ListarFalla(d) ==
    /\ driver = d
    /\ phase = "idle"
    /\ phase' = "error"
    /\ UNCHANGED <<callerVars, engineVars, driver, archivos_xml, pos,
                   todos_los_datos, errores, handed>>

run_processing_listar_falla == ListarFalla("tk")

\* the batch has reached one of its exits
BatchEnded == phase \in {"done", "success", "error"}

\* final_update, called by the worker at each of its exits: the callback is
\* queued with after(0, ...) and run_processing returns
final_update(a, error, success) ==
    [a EXCEPT !.after = Append(@, [error |-> error, success |-> success]),
              !.workers = @ - 1]

FinalUpdate ==
    /\ driver = "tk"
    /\ BatchEnded
    /\ app' = final_update(app, phase # "success", phase = "success")
    /\ phase' = "stopped"
    /\ UNCHANGED <<engineVars, driver, archivos_xml, pos, todos_los_datos,
                   errores, handed, root, salidas>>

\* _finish_process(message, error, success, file_path); the message box it
\* ends with is shown after the attributes and the button are set
_finish_process(a, success) ==
    check_ready([a EXCEPT !.is_processing = FALSE,
                          !.process_finished = IF success THEN TRUE ELSE @])

\* the event loop runs the oldest queued callback
FinishProcess ==
    /\ app.after # <<>>
    /\ AppStep([_finish_process(app, Head(app.after).success) EXCEPT
                   !.after = Tail(@), !.handler = "_finish_process"])

NextTk ==
    \/ browse_input_open
    \/ browse_input
    \/ browse_output_open
    \/ browse_output
    \/ StartProcessingThread
    \/ run_processing_listar
    \/ run_processing_listar_falla
    \/ run_processing_procesar
    \/ run_processing_fin
    \/ run_processing_exportar
    \/ FinalUpdate
    \/ FinishProcess

SpecTk == InitTk /\ [][NextTk]_vars

-----------------------------------------------------------------------------
(* test_filepicker.py: the Flet application.  app holds carpeta_input,     *)
(* carpeta_output, the disabled flag of btn_procesar and the number of     *)
(* process_files runs that are between their first line and the end of     *)
(* their finally block.  process_files is a coroutine: at each await the   *)
(* event loop may deliver a change of one of the two text fields or a      *)
(* click on the button.  The run itself is the batch of the "flet" driver. *)
(* The listing reads self.carpeta_input when it runs; were the field       *)
(* cleared since the click, os.listdir(None) lists the working directory,  *)
(* taken here to hold the same files.                                      *)

\* CFDIProcessorApp.__init__
FletApp ==
    [kind |-> "flet", carpeta_input |-> PyNone, carpeta_output |-> PyNone,
     btn_procesar_disabled |-> TRUE, en_curso |-> 0, runs |-> 0,
     handler |-> "none"]

InitFlet == InitApp("flet", FletApp)

\* check_enable_process_button with the button left disabled while a run
\* is in progress: what C30 expects of it
check_enable_process_button_unless_running(a) ==
    [a EXCEPT !.btn_procesar_disabled =
        ~(a.carpeta_input # PyNone /\ a.carpeta_output # PyNone) \/ a.en_curso > 0]

\* not (self.carpeta_input and self.carpeta_output): each is None or a
\* string that is not empty
check_enable_process_button(a) ==
    [a EXCEPT !.btn_procesar_disabled =
        ~(a.carpeta_input # PyNone /\ a.carpeta_output # PyNone)]

\* what the user can leave in txt_input: nothing, the folder, a path that
\* does not exist
InputTexts == {"", "input_dir", "no_such_dir"}

\* what the user can leave in txt_output: nothing or the folder
OutputTexts == {"", "output_dir"}

\* on_input_changed: the folder is kept when it exists and lists an XML file
on_input_changed(a, ruta, listing) ==
    check_enable_process_button(
        [a EXCEPT !.carpeta_input =
            IF ruta = "input_dir" /\ XmlFilesIn(listing) # <<>>
            THEN PyStr(ruta) ELSE PyNone,
                  !.handler = "on_input_changed"])

\* on_output_changed: made tells whether the folder exists or os.makedirs
\* went through
on_output_changed(a, ruta, made) ==
    check_enable_process_button(
        [a EXCEPT !.carpeta_output =
            IF ruta # "" /\ made THEN PyStr(ruta) ELSE PyNone,
                  !.handler = "on_output_changed"])

OnInputChanged ==
    \E ruta \in InputTexts : AppStep(on_input_changed(app, ruta, Listdir(fs)))

OnOutputChanged ==
    \E ruta \in OutputTexts, made \in BOOLEAN :
        AppStep(on_output_changed(app, ruta, made))

\* process_files(): lines 191-200, entered by a click, which Flet delivers
\* only while the button is enabled
ProcessFilesInicio ==
    /\ ~app.btn_procesar_disabled
    /\ app.runs < MaxRuns
    /\ app' = [app EXCEPT !.btn_procesar_disabled = TRUE, !.en_curso = @ + 1,
                          !.runs = @ + 1, !.handler = "process_files"]
    /\ StartBatch

process_files_listar_falla == ListarFalla("flet")

\* process_files(): the finally block, after each exit of the run
process_files_finally_unless_cleared(a) ==
    check_enable_process_button([a EXCEPT !.en_curso = @ - 1])

process_files_finally(a) ==
    [a EXCEPT !.btn_procesar_disabled = FALSE, !.en_curso = @ - 1]

ProcessFilesFinally ==
    /\ driver = "flet"
    /\ BatchEnded
    /\ app' = process_files_finally(app)
    /\ phase' = "stopped"
    /\ UNCHANGED <<engineVars, driver, archivos_xml, pos, todos_los_datos,
                   errores, handed, root, salidas>>

NextFlet ==
    \/ OnInputChanged
    \/ OnOutputChanged
    \/ ProcessFilesInicio
    \/ process_files_listar
    \/ process_files_listar_falla
    \/ process_files_procesar
    \/ process_files_fin
    \/ process_files_exportar
    \/ ProcessFilesFinally

SpecFlet == InitFlet /\ [][NextFlet]_vars

\* the documents whose records are handed over: the test's, one with two
\* line items and two payments, a 3.3 one with one payment, one stamped
\* without line items, one with a Pagos container without Pago
ExportDocs ==
    {TestDoc, FullDoc, LegacyDoc,
     Shape("full4", "e4", "r4", "none", "timbre"),
     Shape("full4", "e4", "r4", "one4", "p20totales")}

\* the record procesar_cfdi_completo returns for a document
RecordOf(doc) ==
    Assemble(SectionOrder("cfdi_tool"), Sections("cfdi_tool", doc),
             Path(Name(1, "xml")), 1).ret.val

InitExport ==
    /\ self_namespaces = namespaces
    /\ historial = <<>>
    /\ CallerIdle
    /\ fs = [p \in {ruta_salida} |-> MissingFile]
    /\ op = NoCall
    /\ ret = Return(PyNone)
    /\ invoked = <<>>
    /\ stdout = "nothing"
    /\ todos_los_datos = <<>>
    /\ driver = "none" /\ archivos_xml = <<>> /\ pos = 0
    /\ errores = 0 /\ handed = <<>> /\ phase = "loop"

\* the record of one more document is collected, as in the loop of a driver
Recopilar(doc) ==
    /\ phase = "loop"
    /\ Len(todos_los_datos) < MaxRecords
    /\ todos_los_datos' = Append(todos_los_datos, RecordOf(doc))
    /\ UNCHANGED <<callerVars, engineVars, driver, archivos_xml, pos, errores, handed, phase>>

ExportarAExcel ==
    \E write_ok \in BOOLEAN :
        LET r == exportar_a_excel(todos_los_datos, fs[ruta_salida], write_ok)
        IN  /\ phase = "loop"
            /\ op' = Call("exportar_a_excel", "cfdi_tool", ruta_salida)
            /\ ret' = r.ret
            /\ stdout' = r.out
            /\ invoked' = <<>>
            /\ fs' = [fs EXCEPT ![ruta_salida] = r.file]
            /\ phase' = "done"
            /\ UNCHANGED <<callerVars, self_namespaces, historial, driver, archivos_xml, pos,
                           todos_los_datos, errores, handed>>

NextExport ==
    \/ \E doc \in ExportDocs : Recopilar(doc)
    \/ ExportarAExcel

SpecExport == InitExport /\ [][NextExport]_vars

-----------------------------------------------------------------------------
(* The engine called on its own on trees that nest: tax elements at        *)
(* several depths under several line items, payments with several related  *)
(* documents, and payments complements that mix the two generations.       *)

\* a line item with three Traslado at three depths (two of them alike), two
\* Retencion alike at two depths; one with a 4.0 and a 3.3 Traslado; one
\* without taxes; then the taxes of the document
NestedTaxDoc ==
    <<Root("full4"), Emisor4, Receptor4,
      Node(cfd4, "Conceptos", 1, NoAttrs),
      Concepto(cfd4, <<"1", "0", "0">>),
      Traslado(cfd4, 3, <<"1">>),
      Node(cfd4, "Impuestos", 3, NoAttrs),
      Node(cfd4, "Traslados", 4, NoAttrs),
      Traslado(cfd4, 5, <<"1", "6">>),
      Traslado(cfd4, 5, <<"1", "6">>),
      Node(cfd4, "Retenciones", 4, NoAttrs),
      Retencion(cfd4, 5),
      Node(cfd4, "Parte", 3, NoAttrs),
      Node(cfd4, "Impuestos", 4, NoAttrs),
      Retencion(cfd4, 5),
      Concepto(cfd4, <<"2", "0", "0">>),
      Node(cfd4, "Impuestos", 3, NoAttrs),
      Node(cfd4, "Traslados", 4, NoAttrs),
      Traslado(cfd4, 5, <<"3", "2">>),
      Traslado(cfd3, 5, <<"7">>),
      Concepto(cfd4, <<"3", "0", "0">>),
      Node(cfd4, "Impuestos", 1, [TotalImpuestosTrasladados |-> "48"]),
      Node(cfd4, "Traslados", 2, NoAttrs),
      Traslado(cfd4, 3, <<"4", "8">>),
      Node(cfd4, "Retenciones", 2, NoAttrs),
      [Retencion(cfd4, 3) EXCEPT !.attrs.Importe = <<"9">>]>>

\* a 3.3 document: two line items with 3.3 taxes, and the taxes of the
\* document
LegacyTaxDoc ==
    <<Root("full3"), Emisor3, Receptor3,
      Node(cfd3, "Conceptos", 1, NoAttrs),
      Concepto(cfd3, <<"7", "0">>),
      Node(cfd3, "Impuestos", 3, NoAttrs),
      Node(cfd3, "Traslados", 4, NoAttrs),
      Traslado(cfd3, 5, <<"1", "1", ".", "2">>),
      Node(cfd3, "Retenciones", 4, NoAttrs),
      Retencion(cfd3, 5),
      Concepto(cfd3, <<"8", "0">>),
      Traslado(cfd3, 3, <<"1", "2", ".", "8">>),
      Node(cfd3, "Impuestos", 1, NoAttrs),
      Traslado(cfd3, 2, <<"2", "4">>)>>

\* the same with a 4.0 Traslado under the first 3.3 line item and a 4.0
\* Retencion under the second
MixedTaxDoc ==
    SubSeq(LegacyTaxDoc, 1, 8) \o <<Traslado(cfd4, 5, <<"5">>)>>
        \o SubSeq(LegacyTaxDoc, 9, 12) \o <<Retencion(cfd4, 3)>>
        \o SubSeq(LegacyTaxDoc, 13, Len(LegacyTaxDoc))

TaxDocs ==
    {NestedTaxDoc, LegacyTaxDoc, MixedTaxDoc, FullDoc, LegacyDoc,
     Shape("full4", "e4", "r4", "one4one3", "none"),
     Shape("full4", "e4", "r4", "empty4legacy3", "none"),
     ClearSlot(NestedTaxDoc, <<"Traslado", "Importe">>),
     SetSlot(NestedTaxDoc, <<"Retencion", "Base">>, <<"x">>)}

PNode(prefix, tag, depth) == Node(namespaces[prefix], tag, depth, NoAttrs)

TrasladoDRCon(prefix, importe) ==
    [TrasladoDR(prefix) EXCEPT !.attrs.ImporteDR = importe]

\* one payment with two related documents, the first with two TrasladoDR
\* (and a RetencionDR), the second with none; one payment with one related
\* document and one TrasladoDR; one payment without related document
PagosDoc(prefix) ==
    <<Root("full4"), Emisor4, Receptor4,
      Node(cfd4, "Complemento", 1, NoAttrs),
      Pagos(prefix),
      Node(namespaces[prefix], "Totales", 3, [MontoTotalPagos |-> "1165"]),
      Pago(prefix, <<"1", "1", "6", "0">>),
      Docto(prefix, "uuid-1"),
      PNode(prefix, "ImpuestosDR", 5),
      PNode(prefix, "RetencionesDR", 6),
      PNode(prefix, "RetencionDR", 7),
      PNode(prefix, "TrasladosDR", 6),
      TrasladoDRCon(prefix, <<"1", "6", "0">>),
      TrasladoDRCon(prefix, <<"8">>),
      Docto(prefix, "uuid-2"),
      Pago(prefix, <<"5">>),
      Docto(prefix, "uuid-3"),
      PNode(prefix, "ImpuestosDR", 5),
      PNode(prefix, "TrasladosDR", 6),
      TrasladoDRCon(prefix, <<"3">>),
      Pago(prefix, <<"2">>),
      Timbre>>

\* both containers, each with a payment of its generation
BothContainersDoc ==
    <<Root("full4"),
      Node(cfd4, "Complemento", 1, NoAttrs),
      Pagos("pago10"), Pago("pago10", <<"9", "9">>), Docto("pago10", "uuid-10"),
      Pagos("pago20"), Pago("pago20", <<"2", "0">>), Docto("pago20", "uuid-20")>>

\* a 2.0 container without children before a 1.0 container with a payment
EmptyThenLegacyDoc ==
    <<Root("full4"),
      Node(cfd4, "Complemento", 1, NoAttrs),
      Pagos("pago20"),
      Pagos("pago10"), Pago("pago10", <<"9", "9">>), Docto("pago10", "uuid-10")>>

\* one container whose levels below hold elements of both generations
MixedLevelsDoc(prefix) ==
    <<Root("full4"),
      Node(cfd4, "Complemento", 1, NoAttrs),
      Pagos(prefix),
      Pago("pago10", <<"1", "0">>),
      Docto("pago10", "uuid-a"),
      Pago("pago20", <<"2", "0">>),
      Docto("pago10", "uuid-b"),
      Docto("pago20", "uuid-c"),
      PNode("pago10", "ImpuestosDR", 5),
      PNode("pago10", "TrasladosDR", 6),
      TrasladoDRCon("pago10", <<"1">>),
      PNode("pago20", "ImpuestosDR", 5),
      PNode("pago20", "TrasladosDR", 6),
      TrasladoDRCon("pago10", <<"2">>),
      TrasladoDRCon("pago20", <<"3">>),
      Docto("pago20", "uuid-d"),
      PNode("pago10", "ImpuestosDR", 5),
      PNode("pago10", "TrasladosDR", 6),
      TrasladoDRCon("pago10", <<"4">>),
      TrasladoDRCon("pago10", <<"5">>)>>

\* a 2.0 payment whose related documents are all of generation 1.0
LegacyBelowDoc ==
    <<Root("full4"),
      Node(cfd4, "Complemento", 1, NoAttrs),
      Pagos("pago20"),
      Pago("pago20", <<"2", "0">>),
      Docto("pago10", "uuid-e"),
      PNode("pago20", "ImpuestosDR", 5),
      TrasladoDRCon("pago10", <<"6">>),
      Docto("pago10", "uuid-f")>>

PagosDocs ==
    {PagosDoc("pago20"), PagosDoc("pago10"), BothContainersDoc, EmptyThenLegacyDoc,
     MixedLevelsDoc("pago20"), MixedLevelsDoc("pago10"), LegacyBelowDoc,
     Shape("full4", "e4", "r4", "one4", "p20empty"),
     Shape("full4", "e4", "r4", "one4", "p20totales"),
     SetSlot(PagosDoc("pago20"), <<"TrasladoDR", "BaseDR">>, <<"x">>)}

TreeContents == {XmlFile(d) : d \in TaxDocs \cup PagosDocs}

InitTrees ==
    /\ \E c \in TreeContents :
          fs = [q \in EnginePaths |-> IF q = Path(Name(1, "xml")) THEN c ELSE MissingFile]
    /\ op = NoCall
    /\ ret = Return(PyNone)
    /\ invoked = <<>>
    /\ stdout = "nothing"
    /\ self_namespaces = namespaces
    /\ historial = <<>>
    /\ CallerIdle
    /\ BatchIdle

\* a call that is handed an element of the tree
CallOn(name, impl, path, e) == [name |-> name, impl |-> impl, path |-> path, e |-> e]

\* the Pagos elements of a tree, of either generation
PagosElements(doc) ==
    {j \in 1..Len(doc) :
        doc[j].tag = "Pagos" /\ doc[j].ns \in {namespaces.pago20, namespaces.pago10}}

\* extraer_complemento_pagos(pagos), pagos being a Pagos element of the
\* tree of the file at path
ExtraerComplementoPagos(impl, path) ==
    /\ op = NoCall
    /\ fs[path].kind = "xml"
    /\ \E pagos \in PagosElements(fs[path].doc) :
          /\ op' = CallOn("complemento_pagos", impl, path, pagos)
          /\ ret' = IF impl = "cfdi_tool"
                    THEN extraer_complemento_pagos(fs[path].doc, pagos)
                    ELSE scripts_extraer_complemento_pagos(fs[path].doc, pagos)
    /\ stdout' = "nothing"
    /\ invoked' = <<>>
    /\ UNCHANGED <<callerVars, fs, self_namespaces, historial, batchVars>>

NextTrees ==
    \E impl \in Impls, path \in EnginePaths :
        \/ ExtraerConceptos(impl, path)
        \/ ExtraerImpuestosConcepto(impl, path)
        \/ ExtraerComplementos(impl, path)
        \/ ExtraerComplementoPagos(impl, path)
        \/ ProcesarCfdiCompleto(impl, path)

SpecTrees == InitTrees /\ [][NextTrees]_vars

-----------------------------------------------------------------------------
(* A caller that loads a file with cargar_cfdi and then invokes the        *)
(* section extractors itself on the tree it holds, in any order and any    *)
(* of them again, keeping the last output of each under the key that       *)
(* procesar_cfdi_completo gives it.                                        *)

SectionNames == {"datos_generales", "emisor", "receptor", "conceptos", "timbre",
                 "complementos", "impuestos"}

\* most extractor calls the caller makes on one tree
MaxExtractions == 8

OrdenContents ==
    {MalformedFile, XmlFile(FullDoc), XmlFile(LegacyDoc), XmlFile(NestedTaxDoc),
     XmlFile(BadSubTotalDoc)}

InitOrden ==
    /\ \E c \in OrdenContents :
          fs = [q \in EnginePaths |-> IF q = Path(Name(1, "xml")) THEN c ELSE MissingFile]
    /\ \E impl \in Impls : op = Call("__init__", impl, NoPath)
    /\ ret = Return(PyNone)
    /\ invoked = <<>>
    /\ stdout = "nothing"
    /\ self_namespaces = namespaces
    /\ historial = <<>>
    /\ root = PyNone
    /\ salidas = [outs |-> <<>>, llamadas |-> 0]
    /\ app = NoApp
    /\ BatchIdle

\* root = self.cargar_cfdi(archivo_path)
CargarArbol(path) ==
    LET r == cargar_cfdi(fs[path])
    IN  /\ op.name = "__init__"
        /\ op' = Call("cargar_cfdi", op.impl, path)
        /\ ret' = r.ret
        /\ stdout' = r.out
        /\ root' = r.ret.val
        /\ UNCHANGED <<fs, invoked, self_namespaces, historial, salidas, app, batchVars>>

\* tree_after with extraer_conceptos detaching the tax elements it has
\* read: a bug C24 must detect
tree_after_taxes_detached(key, doc) ==
    IF key = "conceptos"
    THEN SelectSeq(doc, LAMBDA n : n.tag \notin {"Traslado", "Retencion"})
    ELSE doc

\* the tree after an extractor has run on it: the extractors call find,
\* findall and get on the elements, none of which modifies an element, and
\* assign to no attribute, text or child
tree_after(key, doc) == doc

\* the outputs held, once the extractor of this key has returned: the dict
\* or list it returns is built by the call, and no extractor is handed the
\* output of another
outputs_after(held, key, outcome) ==
    [k \in DOMAIN held \cup {key} |-> IF k = key THEN outcome ELSE held[k]]

\* self.extraer_<key>(root), on the tree held
ExtraerSobreArbol(key) ==
    /\ op.name # "__init__"
    /\ root # PyNone
    /\ salidas.llamadas < MaxExtractions
    /\ \E i \in 1..Len(SectionOrder(op.impl)) : SectionOrder(op.impl)[i] = key
    /\ op' = Call(key, op.impl, op.path)
    /\ ret' = Section(op.impl, key, root.doc)
    /\ salidas' = [outs |-> outputs_after(salidas.outs, key, ret'),
                   llamadas |-> salidas.llamadas + 1]
    /\ root' = Element(tree_after(key, root.doc))
    /\ self_namespaces' = namespaces_after_call(self_namespaces)
    /\ stdout' = "nothing"
    /\ UNCHANGED <<fs, invoked, historial, app, batchVars>>

NextOrden ==
    \/ \E path \in EnginePaths : CargarArbol(path)
    \/ \E key \in SectionNames : ExtraerSobreArbol(key)

SpecOrden == InitOrden /\ [][NextOrden]_vars

-----------------------------------------------------------------------------
(* Properties.  A state after a call holds the call (op), its outcome      *)
(* (ret) and the file it read (fs[op.path]).                               *)

\* the last call was given a file that parses
OnXml == op.name # "none" /\ fs[op.path].kind = "xml"

\* the parsed tree the last call read
TheDoc == fs[op.path].doc

\* the last call was procesar_cfdi_completo and returned a record
Assembled ==
    op.name = "procesar_cfdi_completo" /\ ret.ok /\ ret.val # PyNone

HasAttr(doc, e, name) == name \in DOMAIN doc[e].attrs

\* the elements of doc with this tag in one of these namespaces
ElementsOf(doc, uris, tag) ==
    {i \in 1..Len(doc) : doc[i].tag = tag /\ doc[i].ns \in uris}

Zero == PyFloat(0, 0)

\* C1 (as stated): for every well-formed document whose root, Emisor,
\* Receptor and Conceptos are in the 4.0 namespace (and that carries the
\* attributes the claim names), procesar_cfdi_completo returns a non-null
\* record with archivo = the path, serie and folio = the root's Serie and
\* Folio, emisor.rfc and receptor.rfc = the Rfc attributes, and as many
\* conceptos as the Conceptos container has Concepto children.
WellFormed40(doc) ==
    /\ doc[1].ns = cfd4
    /\ \A i \in 1..Len(doc) : doc[i].ns # cfd3
    /\ HasAttr(doc, 1, "Serie") /\ HasAttr(doc, 1, "Folio")
    /\ Cardinality(ElementsOf(doc, {cfd4}, "Emisor")) = 1
    /\ Cardinality(ElementsOf(doc, {cfd4}, "Receptor")) = 1
    /\ Cardinality(ElementsOf(doc, {cfd4}, "Conceptos")) = 1
    /\ \A e \in ElementsOf(doc, {cfd4}, "Emisor") \cup ElementsOf(doc, {cfd4}, "Receptor") :
          HasAttr(doc, e, "Rfc")

C1_RecordOfWellFormed40 ==
    (op.name = "procesar_cfdi_completo" /\ OnXml /\ WellFormed40(TheDoc)) =>
        /\ Assembled
        /\ ret.val.archivo = op.path
        /\ ret.val.datos_generales.serie = PyStr(TheDoc[1].attrs.Serie)
        /\ ret.val.datos_generales.folio = PyStr(TheDoc[1].attrs.Folio)
        /\ \A e \in ElementsOf(TheDoc, {cfd4}, "Emisor") :
              ret.val.emisor.rfc = PyStr(TheDoc[e].attrs.Rfc)
        /\ \A e \in ElementsOf(TheDoc, {cfd4}, "Receptor") :
              ret.val.receptor.rfc = PyStr(TheDoc[e].attrs.Rfc)
        /\ \A c \in ElementsOf(TheDoc, {cfd4}, "Conceptos") :
              Len(ret.val.conceptos) =
                  Cardinality({j \in Children(TheDoc, c) :
                                  TheDoc[j].tag = "Concepto" /\ TheDoc[j].ns = cfd4})

\* C2: for every document with no Emisor element (4.0 or 3.3), extraer_emisor
\* of either variant raises nothing and returns the keys rfc, nombre,
\* regimen_fiscal, each None; with an Emisor it returns the same keys.
EmisorKeys == {"rfc", "nombre", "regimen_fiscal"}

NoEmisor(doc) == ElementsOf(doc, {cfd4, cfd3}, "Emisor") = {}

C2_EmisorAbsentAllNull ==
    (op.name = "emisor" /\ OnXml) =>
        /\ ret.ok
        /\ DOMAIN ret.val = EmisorKeys
        /\ NoEmisor(TheDoc) => \A k \in EmisorKeys : ret.val[k] = PyNone

C2_Witness ==
    /\ op.name = "emisor" /\ OnXml /\ NoEmisor(TheDoc)
    /\ ret = Return([rfc |-> PyNone, nombre |-> PyNone, regimen_fiscal |-> PyNone])

\* C3 (as stated): for every document with no Receptor element, extraer_receptor
\* of each of the two variants returns the keys it returns for a present
\* Receptor, each None.
ReceptorKeys(impl) ==
    IF impl = "cfdi_tool"
    THEN {"rfc", "nombre", "uso_cfdi", "regimen_fiscal", "domicilio_fiscal",
          "domicilio_fiscal_receptor"}
    ELSE {"rfc", "nombre", "uso_cfdi", "regimen_fiscal", "domicilio_fiscal"}

NoReceptor(doc) == ElementsOf(doc, {cfd4, cfd3}, "Receptor") = {}

C3_ReceptorAbsentAllNull ==
    (op.name = "receptor" /\ OnXml) =>
        /\ ret.ok
        /\ DOMAIN ret.val = ReceptorKeys(op.impl)
        /\ NoReceptor(TheDoc) => \A k \in ReceptorKeys(op.impl) : ret.val[k] = PyNone

\* C4: for every present element and every numeric attribute the extractors
\* read from it, when the attribute is absent the field of the returned
\* record is 0.0 (never None, never missing); and no extractor raises because
\* of an absent attribute: whenever one raises, some numeric attribute is
\* present with a text that is not a number.
RootNum == {<<"SubTotal", "subtotal">>, <<"Total", "total">>}
ConceptoNum == {<<"Cantidad", "cantidad">>, <<"ValorUnitario", "valor_unitario">>,
                <<"Importe", "importe">>, <<"Descuento", "descuento">>}
TaxNum == {<<"Base", "base">>, <<"TasaOCuota", "tasa_cuota">>,
           <<"Importe", "importe">>}
PagoNum == {<<"Monto", "monto">>}
DoctoNum == {<<"ImpSaldoAnt", "imp_saldo_ant">>, <<"ImpPagado", "imp_pagado">>,
             <<"ImpSaldoInsoluto", "imp_saldo_insoluto">>}
TrasladoDRNum == {<<"BaseDR", "base">>, <<"TasaOCuotaDR", "tasa_cuota">>,
                  <<"ImporteDR", "importe">>}

\* the state holds the value a section extractor returned
Returned(key) ==
    \/ op.name = key /\ OnXml /\ ret.ok
    \/ Assembled /\ key \in DOMAIN ret.val

ValueOf(key) == IF op.name = key THEN ret.val ELSE ret.val[key]

ZeroWhereAbsent(e, rec, pairs) ==
    \A p \in pairs :
        ~HasAttr(TheDoc, e, p[1]) => (p[2] \in DOMAIN rec /\ rec[p[2]] = Zero)

ZeroWhereAbsentAll(elements, recs, pairs) ==
    /\ Len(recs) = Len(elements)
    /\ \A i \in 1..Len(elements) : ZeroWhereAbsent(elements[i], recs[i], pairs)

TaxesZero(e, impuestos) ==
    /\ ZeroWhereAbsentAll(findall_desc(TheDoc, e, "cfdi", "Traslado"),
                          impuestos.traslados, TaxNum)
    /\ ZeroWhereAbsentAll(findall_desc(TheDoc, e, "cfdi", "Retencion"),
                          impuestos.retenciones, TaxNum)

ConceptosZero(elements, recs) ==
    /\ ZeroWhereAbsentAll(elements, recs, ConceptoNum)
    /\ \A i \in 1..Len(elements) : TaxesZero(elements[i], recs[i].impuestos)

DoctosZero(elements, recs) ==
    /\ ZeroWhereAbsentAll(elements, recs, DoctoNum)
    /\ op.impl = "cfdi_tool" =>
          \A j \in 1..Len(elements) :
              ZeroWhereAbsentAll(TrasladosDROf(TheDoc, elements[j]),
                                 recs[j].traslados_dr, TrasladoDRNum)

PagosZero(elements, recs) ==
    /\ ZeroWhereAbsentAll(elements, recs, PagoNum)
    /\ \A i \in 1..Len(elements) :
          DoctosZero(DocsOf(TheDoc, elements[i]), recs[i].documentos_relacionados)

\* the numeric attributes read from an element with this tag
NumAttrsOf(tag) == {s[2] : s \in {t \in NumSlots : t[1] = tag}}

SomeTextNotANumber(doc) ==
    \E i \in 1..Len(doc) : \E a \in NumAttrsOf(doc[i].tag) :
        HasAttr(doc, i, a) /\ ParseFloatText(doc[i].attrs[a]) = ValueError

C4_AbsentNumericIsZero ==
    /\ Returned("datos_generales") =>
          ZeroWhereAbsent(1, ValueOf("datos_generales"), RootNum)
    /\ Returned("conceptos") =>
          ConceptosZero(
              IfEmpty(findall_path2(TheDoc, 1, "cfdi", "Conceptos", "cfdi", "Concepto"),
                      findall_path2(TheDoc, 1, "cfdi33", "Conceptos", "cfdi33", "Concepto")),
              ValueOf("conceptos"))
    /\ Returned("impuestos") => TaxesZero(1, ValueOf("impuestos"))
    /\ (Returned("complementos") /\ "pagos" \in DOMAIN ValueOf("complementos")) =>
          PagosZero(PagosOf(TheDoc, IF op.impl = "cfdi_tool"
                                    THEN PagosContainer(TheDoc)
                                    ELSE scripts_PagosContainer(TheDoc)),
                    ValueOf("complementos").pagos)
    /\ (OnXml /\ ~ret.ok) => SomeTextNotANumber(TheDoc)

C4_Witness ==
    /\ op.name = "conceptos" /\ OnXml /\ ret.ok
    /\ \E c \in ElementsOf(TheDoc, {cfd4}, "Concepto") : ~HasAttr(TheDoc, c, "Importe")
    /\ \A i \in 1..Len(ret.val) : ret.val[i].importe = Zero /\ ret.val[i].descuento = Zero
    /\ Len(ret.val) = 2

\* C5 (as stated): on every file that parses, whatever the text of its
\* attributes, every section extractor and procesar_cfdi_completo return a
\* value and never raise.
C5_ExtractionNeverRaises ==
    (op.name \in SectionNames \cup {"procesar_cfdi_completo"} /\ OnXml) => ret.ok

\* C6 (as stated): for every document with a payments container (pago20:Pagos
\* or pago10:Pagos) and no payment element, extraer_complementos returns a
\* mapping with the key 'pagos' and the empty sequence as its value, whether
\* or not the container has other children.
PagosUris == {namespaces.pago20, namespaces.pago10}

HasContainer(doc) == ElementsOf(doc, PagosUris, "Pagos") # {}

C6_EmptyContainerGivesEmptyPagos ==
    (/\ op.name = "complementos" /\ OnXml
     /\ HasContainer(TheDoc)
     /\ ElementsOf(TheDoc, PagosUris, "Pago") = {}) =>
        ret = Return([pagos |-> <<>>])

\* C7: in every record procesar_cfdi_completo returns, complementos has the
\* key 'pagos' only if the document has a payments container; without a
\* container the key is absent.
C7_PagosKeyOnlyWithContainer ==
    Assembled =>
        ("pagos" \in DOMAIN ret.val.complementos => HasContainer(TheDoc))

C7_Witness ==
    /\ Assembled
    /\ ~HasContainer(TheDoc)
    /\ ret.val.complementos = <<>>
    /\ ret.val.conceptos # <<>>

\* C8: for a file that is not well-formed XML and for a path that does not
\* exist, cargar_cfdi lets no exception escape and returns None, and
\* procesar_cfdi_completo returns that None, enters no section extractor and
\* builds no record.
C8_LoadFailureReturnsNone ==
    (/\ op.name \in {"cargar_cfdi", "procesar_cfdi_completo"}
     /\ fs[op.path].kind \in {"malformed", "missing"}) =>
        ret = Return(PyNone) /\ invoked = <<>>

C8_Witness ==
    /\ op.name = "procesar_cfdi_completo"
    /\ fs[op.path].kind = "malformed"
    /\ ret = Return(PyNone)
    /\ invoked = <<>>

\* C9 (as stated): the failure returned is typed, NotFound for a path that
\* does not exist, MalformedXML for content that is not well-formed XML,
\* UnknownReadError for any other read failure, so the returned value tells
\* which of the three occurred.
TypedFailure(kind) ==
    CASE kind = "missing" -> [t |-> "NotFound"]
      [] kind = "malformed" -> [t |-> "MalformedXML"]
      [] kind = "unreadable" -> [t |-> "UnknownReadError"]

LoadFails ==
    /\ op.name \in {"cargar_cfdi", "procesar_cfdi_completo"}
    /\ fs[op.path].kind \in {"missing", "malformed", "unreadable"}

C10_BatchReachesEndOfList ==
    phase \in {"export", "done", "crashed"} =>
        handed = [i \in 1..Len(archivos_xml) |-> Path(archivos_xml[i])]

\* C11: in the two drivers that report counts (run_processing,
\* process_files), every file handed to procesar_cfdi_completo is in exactly
\* one of the two counts: the collected records are of distinct handed files,
\* errores counts the handed files without a record, and when the loop has
\* ended records + errores = number of .xml files listed.
CountingDrivers == {"tk", "flet"}

RecordPaths == {todos_los_datos[i].archivo : i \in 1..Len(todos_los_datos)}

C11_RecordsPlusErrorsIsFiles ==
    driver \in CountingDrivers =>
        /\ Cardinality(RecordPaths) = Len(todos_los_datos)
        /\ RecordPaths \subseteq {handed[i] : i \in 1..Len(handed)}
        /\ errores = Len(handed) - Len(todos_los_datos)
        /\ phase \in {"export", "done"} =>
              Len(todos_los_datos) + errores = Len(archivos_xml)

C11_Witness ==
    /\ driver \in CountingDrivers
    /\ phase = "export"
    /\ Len(archivos_xml) = 2
    /\ Len(todos_los_datos) = 1
    /\ errores = 1
    /\ ~ret.ok

\* C12: extraer_emisor, extraer_receptor and the line-item lookup of
\* extraer_conceptos try the 4.0 namespace first and the 3.3 namespace second:
\* a 4.0 element is the one used even when a 3.3 one is present, an element
\* present only in 3.3 still populates the result, and with neither the
\* result is the 'not found' default (no populated value, no line item) and
\* nothing is raised.
\* the children of the root with this tag in this namespace
RootChildren(uri, tag) ==
    {i \in 1..Len(TheDoc) :
        TheDoc[i].depth = 1 /\ TheDoc[i].ns = uri /\ TheDoc[i].tag = tag}

\* the Concepto children of the Conceptos children of the root, in a namespace
LineItems(uri) ==
    {i \in 1..Len(TheDoc) :
        /\ TheDoc[i].depth = 2 /\ TheDoc[i].ns = uri /\ TheDoc[i].tag = "Concepto"
        /\ \E c \in RootChildren(uri, "Conceptos") :
              c < i /\ \A k \in (c + 1)..i : TheDoc[k].depth > 1}

Lowest(S) == CHOOSE x \in S : \A y \in S : x <= y

\* the element the lookup must settle on: the first 4.0 one, else the first
\* 3.3 one, else none
Preferred(tag) ==
    IF RootChildren(cfd4, tag) # {} THEN Lowest(RootChildren(cfd4, tag))
    ELSE IF RootChildren(cfd3, tag) # {} THEN Lowest(RootChildren(cfd3, tag))
    ELSE NoElement

AttrOrNone(e, name) ==
    IF HasAttr(TheDoc, e, name) THEN PyStr(TheDoc[e].attrs[name]) ELSE PyNone

PreferredLineItems ==
    IF LineItems(cfd4) # {} THEN LineItems(cfd4) ELSE LineItems(cfd3)

C12_NamespaceOrder ==
    /\ (op.name \in {"emisor", "receptor"} /\ OnXml) =>
          /\ ret.ok
          /\ LET e == Preferred(IF op.name = "emisor" THEN "Emisor" ELSE "Receptor")
             IN  IF e = NoElement
                 THEN \A k \in DOMAIN ret.val : ret.val[k] = PyNone
                 ELSE ret.val.rfc = AttrOrNone(e, "Rfc")
    /\ (op.name = "conceptos" /\ OnXml) =>
          /\ PreferredLineItems = {} => ret = Return(<<>>)
          /\ ret.ok =>
                /\ Len(ret.val) = Cardinality(PreferredLineItems)
                /\ \A i \in 1..Len(ret.val) :
                      \E e \in PreferredLineItems :
                         /\ Cardinality({x \in PreferredLineItems : x <= e}) = i
                         /\ ret.val[i].valor_unitario =
                               float(get(TheDoc, e, "ValorUnitario", PyInt(0)))

C12_Witness ==
    /\ op.name = "emisor" /\ OnXml
    /\ RootChildren(cfd4, "Emisor") # {} /\ RootChildren(cfd3, "Emisor") # {}
    /\ ret.ok
    /\ ret.val.rfc = PyStr("DEMO010101001")

-----------------------------------------------------------------------------
(* C13: detectar_version takes the root's Version attribute when the root  *)
(* has one, else its version attribute when it has one, else infers '4.0'  *)
(* or '3.3' from the tag text, else gives the unknown label; a root in the *)
(* 3.3 namespace without a Version attribute is never reported as '4.0'    *)
(* and a root in the 4.0 namespace is never reported as '3.3'.             *)

C13_VersionOrder ==
    (op.name = "detectar_version" /\ OnXml) =>
        /\ ret.ok
        /\ ret.val =
              IF "Version" \in DOMAIN TheDoc[1].attrs
              THEN PyStr(TheDoc[1].attrs["Version"])
              ELSE IF "version" \in DOMAIN TheDoc[1].attrs
                   THEN PyStr(TheDoc[1].attrs["version"])
                   ELSE FromTag(op.impl, lower(tag_of(TheDoc[1])))
        /\ (TheDoc[1].ns = cfd3 /\ "Version" \notin DOMAIN TheDoc[1].attrs) =>
              ret.val # PyStr("4.0")
        /\ TheDoc[1].ns = cfd4 => ret.val # PyStr("3.3")

-----------------------------------------------------------------------------
(* C14: two documents that differ only in the value or presence of the     *)
(* root's Version or version attribute, processed at the same path, give   *)
(* the same outcome, and when that is a record the two records are equal   *)
(* in every field other than datos_generales.version and                   *)
(* fecha_procesamiento.                                                    *)

VersionAttrs == {"Version", "version"}

OtherAttrs(node) == [a \in DOMAIN node.attrs \ VersionAttrs |-> node.attrs[a]]

DifferOnlyInVersion(d1, d2) ==
    /\ Len(d1) = Len(d2)
    /\ \A i \in 2..Len(d1) : d1[i] = d2[i]
    /\ d1[1].ns = d2[1].ns /\ d1[1].tag = d2[1].tag /\ d1[1].depth = d2[1].depth
    /\ OtherAttrs(d1[1]) = OtherAttrs(d2[1])

IsRecord(r) == r.ok /\ r.val # PyNone

WithoutVersionAndTime(r) ==
    IF IsRecord(r)
    THEN Return([r.val EXCEPT !.fecha_procesamiento = 0,
                              !.datos_generales.version = PyNone])
    ELSE r

C14_VersionDoesNotGate ==
    \A i, j \in 1..Len(historial) :
        (/\ historial[i].path = historial[j].path
         /\ historial[i].file.kind = "xml" /\ historial[j].file.kind = "xml"
         /\ DifferOnlyInVersion(historial[i].file.doc, historial[j].file.doc)) =>
            WithoutVersionAndTime(historial[i].ret) =
                WithoutVersionAndTime(historial[j].ret)

C14_Witness ==
    \E i, j \in 1..Len(historial) :
        /\ historial[i].path = historial[j].path
        /\ historial[i].file.kind = "xml" /\ historial[j].file.kind = "xml"
        /\ DifferOnlyInVersion(historial[i].file.doc, historial[j].file.doc)
        /\ IsRecord(historial[i].ret) /\ IsRecord(historial[j].ret)
        /\ historial[i].ret.val.datos_generales.version = PyStr("4.0")
        /\ historial[j].ret.val.datos_generales.version = PyNone
        /\ detectar_version(op.impl, historial[j].file.doc) = PyStr("3.3")
        /\ historial[i].ret.val.conceptos # <<>>

-----------------------------------------------------------------------------
(* C15: on one extractor instance, a document processed again gives the    *)
(* outcome it gave before (apart from fecha_procesamiento), whatever was   *)
(* processed in between, and self.namespaces stays the table __init__      *)
(* built.                                                                  *)

WithoutTime(r) ==
    IF IsRecord(r) THEN Return([r.val EXCEPT !.fecha_procesamiento = 0]) ELSE r

C15_NoStateBetweenDocuments ==
    /\ self_namespaces = namespaces
    /\ \A i, j \in 1..Len(historial) :
          (historial[i].path = historial[j].path
              /\ historial[i].file = historial[j].file) =>
                WithoutTime(historial[i].ret) = WithoutTime(historial[j].ret)

C15_Witness ==
    /\ Len(historial) = 3
    /\ historial[1].path = historial[3].path
    /\ historial[1].file = historial[3].file
    /\ historial[2].path # historial[1].path
    /\ historial[1].file = XmlFile(FullDoc)
    /\ historial[2].file = XmlFile(LegacyDoc)
    /\ IsRecord(historial[1].ret) /\ IsRecord(historial[2].ret)
    /\ IsRecord(historial[3].ret)
    /\ historial[1].ret.val.fecha_procesamiento
          # historial[3].ret.val.fecha_procesamiento

-----------------------------------------------------------------------------
(* C16: in what extraer_datos_generales returns, serie, folio and moneda   *)
(* are the root's Serie, Folio and Moneda attributes when the root has     *)
(* them, whatever their text, and 'Sin Serie', 'Sin Folio' and 'MXN' when  *)
(* it has not; subtotal and total are the parsed SubTotal and Total, and   *)
(* 0.0 when the attribute is absent.  (It returns unless SubTotal or Total *)
(* is present with a text that is not a number.)                           *)

RootAttr(name, default) ==
    IF HasAttr(TheDoc, 1, name) THEN PyStr(TheDoc[1].attrs[name]) ELSE default

RootNumber(name) ==
    IF HasAttr(TheDoc, 1, name) THEN ParseFloatText(TheDoc[1].attrs[name]) ELSE Zero

DefaultsTable(datos) ==
    /\ datos.serie = RootAttr("Serie", PyStr("Sin Serie"))
    /\ datos.folio = RootAttr("Folio", PyStr("Sin Folio"))
    /\ datos.moneda = RootAttr("Moneda", PyStr("MXN"))
    /\ datos.subtotal = RootNumber("SubTotal")
    /\ datos.total = RootNumber("Total")

C16_DefaultsTable ==
    /\ Returned("datos_generales") => DefaultsTable(ValueOf("datos_generales"))
    /\ (op.name = "datos_generales" /\ OnXml /\ ~ret.ok) =>
          ValueError \in {RootNumber("SubTotal"), RootNumber("Total")}

C16_Witness ==
    /\ op.name = "datos_generales" /\ OnXml /\ ret.ok
    /\ HasAttr(TheDoc, 1, "Serie") /\ ret.val.serie = PyStr("")
    /\ ret.val.folio = PyStr("7")
    /\ ret.val.moneda = PyStr("USD")
    /\ ~HasAttr(TheDoc, 1, "SubTotal") /\ ret.val.subtotal = Zero
    /\ ret.val.total = PyFloat(5, 0)

-----------------------------------------------------------------------------
(* C17: traducir_tipo_comprobante returns the label of the table for each  *)
(* of the codes I, E, P, N and T ('Ingreso (Factura)' for I), and for      *)
(* every other input, None for an absent attribute included, the label     *)
(* 'Desconocido (<code>)' holding the input; it never raises and never     *)
(* returns None.                                                           *)

KnownCodes == {"I", "E", "P", "N", "T"}

TipoOfRoot == IF HasAttr(TheDoc, 1, "TipoDeComprobante")
              THEN TheDoc[1].attrs["TipoDeComprobante"] ELSE "None"

LabelOf(code) ==
    CASE code = "I" -> <<"Ingreso (Factura)">>
      [] code = "E" -> <<"Egreso (Nota de Credito)">>
      [] code = "P" -> <<"Pago">>
      [] code = "N" -> <<"Nomina">>
      [] code = "T" -> <<"Traslado">>

IsLabelFor(label, code) ==
    /\ label # PyNone
    /\ label.t = "str"
    /\ IF code \in KnownCodes /\ HasAttr(TheDoc, 1, "TipoDeComprobante")
       THEN label.v = LabelOf(code)
       ELSE label.v = <<"Desconocido (", code, ")">>

C17_TipoComprobanteLabel ==
    /\ (op.name = "traducir_tipo_comprobante" /\ OnXml) =>
          ret.ok /\ IsLabelFor(ret.val, TipoOfRoot)
    /\ Returned("datos_generales") =>
          IsLabelFor(ValueOf("datos_generales").tipo_comprobante, TipoOfRoot)

C17_Witness ==
    /\ op.name = "traducir_tipo_comprobante" /\ OnXml
    /\ TipoOfRoot = "Z"
    /\ ret = Return(PyStr(<<"Desconocido (", "Z", ")">>))

-----------------------------------------------------------------------------
(* C18: a record assembled from a 4.0 document with one line item, no tax  *)
(* element and no complement has exactly one line item, whose traslados    *)
(* and retenciones are both empty, and a complementos dict with no keys;   *)
(* extraer_conceptos and extraer_complementos called on their own return   *)
(* the same.                                                               *)

Minimal40(doc) ==
    /\ doc[1].ns = cfd4
    /\ Cardinality(ElementsOf(doc, {cfd4, cfd3}, "Conceptos")) = 1
    /\ Cardinality(ElementsOf(doc, {cfd4, cfd3}, "Concepto")) = 1
    /\ Cardinality(LineItems(cfd4)) = 1
    /\ \A i \in 1..Len(doc) :
          doc[i].tag \notin {"Impuestos", "Traslados", "Traslado", "Retenciones",
                             "Retencion", "Complemento"}

OneBareLineItem(conceptos) ==
    /\ Len(conceptos) = 1
    /\ DOMAIN conceptos[1].impuestos = {"traslados", "retenciones"}
    /\ conceptos[1].impuestos.traslados = <<>>
    /\ conceptos[1].impuestos.retenciones = <<>>

C18_MinimalDocument ==
    (OnXml /\ Minimal40(TheDoc)) =>
        /\ Returned("conceptos") => OneBareLineItem(ValueOf("conceptos"))
        /\ Returned("complementos") => ValueOf("complementos") = <<>>
        /\ op.name \in {"conceptos", "complementos"} => ret.ok

C18_Witness ==
    /\ Assembled /\ OnXml /\ TheDoc = TestDoc
    /\ OneBareLineItem(ret.val.conceptos)
    /\ ret.val.complementos = <<>>

-----------------------------------------------------------------------------
(* C19: extraer_timbre returns the empty dict when the document has no     *)
(* TimbreFiscalDigital element, and a dict with exactly the keys uuid,     *)
(* fecha_timbrado, rfc_prov_certif and no_certificado_sat when it has one, *)
(* each holding the attribute of the first such element, or None where the *)
(* element lacks it; so the two cases never give the same value.           *)

Stamps == ElementsOf(TheDoc, {namespaces.tfd}, "TimbreFiscalDigital")

TimbreKeys ==
    <<<<"uuid", "UUID">>, <<"fecha_timbrado", "FechaTimbrado">>,
      <<"rfc_prov_certif", "RfcProvCertif">>,
      <<"no_certificado_sat", "NoCertificadoSAT">>>>

StampOf(timbre) ==
    IF Stamps = {} THEN timbre = <<>>
    ELSE /\ DOMAIN timbre = {TimbreKeys[k][1] : k \in 1..4}
         /\ \A k \in 1..4 :
               timbre[TimbreKeys[k][1]] = AttrOrNone(Lowest(Stamps), TimbreKeys[k][2])

C19_TimbreEmptyOrFourKeys ==
    /\ (op.name = "timbre" /\ OnXml) => ret.ok
    /\ Returned("timbre") => StampOf(ValueOf("timbre"))

C19_Witness ==
    /\ op.name = "timbre" /\ OnXml /\ ret.ok
    /\ Stamps # {}
    /\ \A k \in 1..4 : ~HasAttr(TheDoc, Lowest(Stamps), TimbreKeys[k][2])
    /\ ret.val # <<>>
    /\ \A k \in 1..4 : ret.val[TimbreKeys[k][1]] = PyNone

-----------------------------------------------------------------------------
(* C20 (as stated): exportar_a_excel, given a non-empty list of records,   *)
(* creates the output file with a CFDI_General sheet of one row per        *)
(* record and a Conceptos sheet of one row per line item over all records, *)
(* and with the sheet 'Documentos Relacionados' only when some related     *)
(* document exists; given an empty list it writes no file.                 *)

RECURSIVE Sum(_)
Sum(numbers) == IF numbers = <<>> THEN 0 ELSE numbers[1] + Sum(Tail(numbers))

\* the line items of all the records handed over
NumLineItems == Sum([i \in 1..Len(todos_los_datos) |-> Len(todos_los_datos[i].conceptos)])

RelatedIn(pagos) ==
    Sum([p \in 1..Len(pagos) |-> Len(pagos[p].documentos_relacionados)])

\* the related documents of all the payments of all the records handed over
NumRelated ==
    Sum([i \in 1..Len(todos_los_datos) |->
            IF "pagos" \in DOMAIN todos_los_datos[i].complementos
            THEN RelatedIn(todos_los_datos[i].complementos.pagos) ELSE 0])

Exported == op.name = "exportar_a_excel"

Written == fs[ruta_salida].kind = "xlsx"

SheetNames == {fs[ruta_salida].sheets[k].name : k \in 1..Len(fs[ruta_salida].sheets)}

RowsOf(name) ==
    (CHOOSE sh \in {fs[ruta_salida].sheets[k] : k \in 1..Len(fs[ruta_salida].sheets)} :
        sh.name = name).rows

SheetsAsClaimed ==
    /\ Written
    /\ {"CFDI_General", "Conceptos"} \subseteq SheetNames
    /\ Len(RowsOf("CFDI_General")) = Len(todos_los_datos)
    /\ Len(RowsOf("Conceptos")) = NumLineItems
    /\ ("Documentos Relacionados" \in SheetNames) <=> (NumRelated > 0)
    /\ NumRelated > 0 => Len(RowsOf("Documentos Relacionados")) = NumRelated

C20_ExportCreatesFile ==
    Exported =>
        IF todos_los_datos # <<>> THEN SheetsAsClaimed ELSE ~Written

\* C20 (amended): exportar_a_excel always returns None.  Given an empty
\* list it writes no file.  Given a non-empty list it either writes the
\* output file, with the sheets as claimed, and reports the file saved, or
\* the write fails, the exception is caught, the error line is printed and
\* no file is written.
C20_ExportCreatesFileUnlessWriteFails ==
    Exported =>
        /\ ret = Return(PyNone)
        /\ IF todos_los_datos = <<>>
           THEN ~Written /\ stdout = "No hay datos generales para exportar"
           ELSE \/ stdout = "Archivo guardado" /\ SheetsAsClaimed
                \/ stdout = "Error al escribir el archivo Excel" /\ ~Written

C20_Witness ==
    /\ Exported /\ Written
    /\ Len(todos_los_datos) = 3
    /\ NumLineItems = 4
    /\ Len(RowsOf("Conceptos")) = 4
    /\ NumRelated = 3
    /\ Len(RowsOf("Documentos Relacionados")) = 3

-----------------------------------------------------------------------------
(* C21: in what extraer_conceptos returns, the line items are in document  *)
(* order, and for every line item traslados is exactly the sequence of the *)
(* Traslado elements (of the namespace the lookup names) below that item's *)
(* element at any depth, in document order, duplicates kept; likewise      *)
(* retenciones for Retencion.  No tax element below one line item is in    *)
(* the sequences of another.                                               *)

\* the elements of this namespace and tag below element e, at any depth
Below(e, uri, tag) ==
    {j \in (e + 1)..Len(TheDoc) :
        /\ TheDoc[j].ns = uri /\ TheDoc[j].tag = tag
        /\ \A k \in (e + 1)..j : TheDoc[k].depth > TheDoc[e].depth}

\* the i-th element of S in document order
Nth(S, i) == CHOOSE x \in S : Cardinality({y \in S : y <= x}) = i

NumberOrZero(e, name) == float(get(TheDoc, e, name, PyInt(0)))

\* the tax dict is the one of element e
DescribesTax(entry, e) ==
    /\ entry.impuesto = AttrOrNone(e, "Impuesto")
    /\ entry.tipo_factor = AttrOrNone(e, "TipoFactor")
    /\ entry.base = NumberOrZero(e, "Base")
    /\ entry.tasa_cuota = NumberOrZero(e, "TasaOCuota")
    /\ entry.importe = NumberOrZero(e, "Importe")

\* the tax dicts are those of the elements of S, one each, in document order
ListsExactly(entries, S) ==
    /\ Len(entries) = Cardinality(S)
    /\ \A i \in 1..Len(entries) : DescribesTax(entries[i], Nth(S, i))

\* the tax elements below a line item
TaxElementsOf(c) == Below(c, cfd4, "Traslado") \cup Below(c, cfd4, "Retencion")

\* the number of tax dicts in the line items returned
RECURSIVE TaxCount(_)
TaxCount(conceptos) ==
    IF conceptos = <<>> THEN 0
    ELSE Len(Head(conceptos).impuestos.traslados)
           + Len(Head(conceptos).impuestos.retenciones) + TaxCount(Tail(conceptos))

C21_TaxesPerLineItem ==
    Returned("conceptos") =>
        /\ Len(ValueOf("conceptos")) = Cardinality(PreferredLineItems)
        /\ \A i \in 1..Len(ValueOf("conceptos")) :
              /\ ValueOf("conceptos")[i].importe =
                     NumberOrZero(Nth(PreferredLineItems, i), "Importe")
              /\ ListsExactly(ValueOf("conceptos")[i].impuestos.traslados,
                              Below(Nth(PreferredLineItems, i), cfd4, "Traslado"))
              /\ ListsExactly(ValueOf("conceptos")[i].impuestos.retenciones,
                              Below(Nth(PreferredLineItems, i), cfd4, "Retencion"))
        /\ TaxCount(ValueOf("conceptos")) =
              Cardinality(UNION {TaxElementsOf(c) : c \in PreferredLineItems})

\* three line items: the first with three Traslado at two depths, two of
\* them alike and both kept, and two Retencion; the second with its own
\* Traslado alone; the third with none
C21_Witness ==
    /\ op.name = "conceptos" /\ OnXml /\ ret.ok
    /\ TheDoc = NestedTaxDoc
    /\ Len(ret.val) = 3
    /\ Len(ret.val[1].impuestos.traslados) = 3
    /\ ret.val[1].impuestos.traslados[1].importe = PyFloat(1, 0)
    /\ ret.val[1].impuestos.traslados[2] = ret.val[1].impuestos.traslados[3]
    /\ Len(ret.val[1].impuestos.retenciones) = 2
    /\ Len(ret.val[2].impuestos.traslados) = 1
    /\ ret.val[2].impuestos.traslados[1].importe = PyFloat(32, 0)
    /\ ret.val[3].impuestos = [traslados |-> <<>>, retenciones |-> <<>>]

-----------------------------------------------------------------------------
(* C22: when the line items of a document are in the 3.3 namespace,        *)
(* extraer_conceptos returns one item per 3.3 Concepto element, in         *)
(* document order; the tax lookup names the 4.0 namespace only, so an item *)
(* below which every Traslado (Retencion) is in the 3.3 namespace has an   *)
(* empty traslados (retenciones), and no tax dict of an item is that of a  *)
(* 3.3 element.                                                            *)

\* the line items are the 3.3 ones: no 4.0 line item shadows them
LegacyLineItems == LineItems(cfd4) = {} /\ LineItems(cfd3) # {}

\* every tax dict is that of a 4.0 element below c with this tag
OnlyFrom40(entries, c, tag) ==
    /\ Below(c, cfd4, tag) = {} => entries = <<>>
    /\ Len(entries) = Cardinality(Below(c, cfd4, tag))
    /\ \A k \in 1..Len(entries) :
          \E j \in Below(c, cfd4, tag) : DescribesTax(entries[k], j)

C22_LegacyItemsNoLegacyTaxes ==
    (Returned("conceptos") /\ LegacyLineItems) =>
        /\ Len(ValueOf("conceptos")) = Cardinality(LineItems(cfd3))
        /\ \A i \in 1..Len(ValueOf("conceptos")) :
              /\ ValueOf("conceptos")[i].importe =
                     NumberOrZero(Nth(LineItems(cfd3), i), "Importe")
              /\ OnlyFrom40(ValueOf("conceptos")[i].impuestos.traslados,
                            Nth(LineItems(cfd3), i), "Traslado")
              /\ OnlyFrom40(ValueOf("conceptos")[i].impuestos.retenciones,
                            Nth(LineItems(cfd3), i), "Retencion")

\* two 3.3 line items, each with a 3.3 Traslado below it, the first with a
\* 3.3 Retencion too: two items are returned, their tax sequences empty
C22_Witness ==
    /\ op.name = "conceptos" /\ OnXml /\ ret.ok
    /\ LegacyLineItems
    /\ Len(ret.val) = 2
    /\ \A c \in LineItems(cfd3) : Below(c, cfd3, "Traslado") # {}
    /\ \E c \in LineItems(cfd3) : Below(c, cfd3, "Retencion") # {}
    /\ \A i \in 1..2 :
          ret.val[i].impuestos = [traslados |-> <<>>, retenciones |-> <<>>]
    /\ ret.val[1].importe = PyFloat(70, 0) /\ ret.val[2].importe = PyFloat(80, 0)

-----------------------------------------------------------------------------
(* C23: for a payments container, extraer_complemento_pagos returns one    *)
(* entry per payment element below it, in document order; the              *)
(* documentos_relacionados of an entry are the related-document elements   *)
(* below that payment, in document order, and the traslados_dr of a        *)
(* related document are the TrasladoDR elements of the tax container of    *)
(* that document.  (Where elements of both generations are present the     *)
(* elements meant are those of generation 2.0.)                            *)

\* the elements with this tag below e: those of generation 2.0, or those of
\* generation 1.0 when there is none of generation 2.0
Gen(e, tag) ==
    IF Below(e, namespaces.pago20, tag) # {}
    THEN Below(e, namespaces.pago20, tag)
    ELSE Below(e, namespaces.pago10, tag)

DescribesTrasladoDR(entry, t) ==
    /\ entry.impuesto = AttrOrNone(t, "ImpuestoDR")
    /\ entry.tipo_factor = AttrOrNone(t, "TipoFactorDR")
    /\ entry.base = NumberOrZero(t, "BaseDR")
    /\ entry.tasa_cuota = NumberOrZero(t, "TasaOCuotaDR")
    /\ entry.importe = NumberOrZero(t, "ImporteDR")

\* the TrasladoDR elements of the tax container of related document d
OwnTrasladosDR(d) ==
    IF Gen(d, "ImpuestosDR") = {} THEN {}
    ELSE Gen(Lowest(Gen(d, "ImpuestosDR")), "TrasladoDR")

TrasladosDRListed(entries, S) ==
    /\ Len(entries) = Cardinality(S)
    /\ \A m \in 1..Len(entries) : DescribesTrasladoDR(entries[m], Nth(S, m))

DescribesDocto(entry, d) ==
    /\ entry.id_documento = AttrOrNone(d, "IdDocumento")
    /\ entry.serie = AttrOrNone(d, "Serie")
    /\ entry.folio = AttrOrNone(d, "Folio")
    /\ entry.moneda = AttrOrNone(d, "MonedaDR")
    /\ entry.imp_saldo_ant = NumberOrZero(d, "ImpSaldoAnt")
    /\ entry.imp_pagado = NumberOrZero(d, "ImpPagado")
    /\ entry.imp_saldo_insoluto = NumberOrZero(d, "ImpSaldoInsoluto")
    /\ op.impl = "cfdi_tool" =>
          TrasladosDRListed(entry.traslados_dr, OwnTrasladosDR(d))

DoctosListed(entries, S) ==
    /\ Len(entries) = Cardinality(S)
    /\ \A k \in 1..Len(entries) : DescribesDocto(entries[k], Nth(S, k))

DescribesPago(entry, e) ==
    /\ entry.fecha_pago = AttrOrNone(e, "FechaPago")
    /\ entry.forma_pago = AttrOrNone(e, "FormaDePagoP")
    /\ entry.moneda = AttrOrNone(e, "MonedaP")
    /\ entry.monto = NumberOrZero(e, "Monto")
    /\ DoctosListed(entry.documentos_relacionados, Gen(e, "DoctoRelacionado"))

PagosListed(entries, S) ==
    /\ Len(entries) = Cardinality(S)
    /\ \A i \in 1..Len(entries) : DescribesPago(entries[i], Nth(S, i))

C23_PaymentsAttribution ==
    (op.name = "complemento_pagos" /\ ret.ok) =>
        PagosListed(ret.val, Gen(op.e, "Pago"))

\* three payments: the first with two related documents, of which the
\* first has two TrasladoDR and the second none; the second with one
\* related document and its one TrasladoDR; the third with none
C23_Witness ==
    /\ op.name = "complemento_pagos" /\ op.impl = "cfdi_tool" /\ ret.ok
    /\ TheDoc = PagosDoc("pago20")
    /\ Len(ret.val) = 3
    /\ Len(ret.val[1].documentos_relacionados) = 2
    /\ ret.val[1].documentos_relacionados[1].id_documento = PyStr("uuid-1")
    /\ Len(ret.val[1].documentos_relacionados[1].traslados_dr) = 2
    /\ ret.val[1].documentos_relacionados[1].traslados_dr[1].importe = PyFloat(160, 0)
    /\ ret.val[1].documentos_relacionados[1].traslados_dr[2].importe = PyFloat(8, 0)
    /\ ret.val[1].documentos_relacionados[2].id_documento = PyStr("uuid-2")
    /\ ret.val[1].documentos_relacionados[2].traslados_dr = <<>>
    /\ Len(ret.val[2].documentos_relacionados) = 1
    /\ ret.val[2].documentos_relacionados[1].id_documento = PyStr("uuid-3")
    /\ ret.val[2].documentos_relacionados[1].traslados_dr[1].importe = PyFloat(3, 0)
    /\ ret.val[3].documentos_relacionados = <<>>

-----------------------------------------------------------------------------
(* C24: no section extractor modifies the parsed tree, the namespace table *)
(* or the output of another extractor: whatever the order in which the     *)
(* extractors are invoked on a tree, and however often, the tree and the   *)
(* table stay as they were, each output held is the one the extractor      *)
(* gives on the tree as loaded, and once every extractor has been invoked  *)
(* the record assembled from the outputs held is the one                   *)
(* procesar_cfdi_completo returns for the file (the timestamp aside).      *)

\* the caller holds a tree
HoldsTree == root # PyNone /\ op.name # "__init__"

\* every extractor of the variant has been invoked
AllInvoked ==
    DOMAIN salidas.outs =
        {SectionOrder(op.impl)[i] : i \in 1..Len(SectionOrder(op.impl))}

\* the outputs held, in the order of the dict display
HeldInOrder ==
    [i \in 1..Len(SectionOrder(op.impl)) |-> salidas.outs[SectionOrder(op.impl)[i]]]

C24_OrderDoesNotMatter ==
    HoldsTree =>
        /\ root = Element(fs[op.path].doc)
        /\ self_namespaces = namespaces
        /\ \A k \in DOMAIN salidas.outs :
              salidas.outs[k] = Section(op.impl, k, fs[op.path].doc)
        /\ AllInvoked =>
              \A now \in Clock :
                 Assemble(SectionOrder(op.impl), HeldInOrder, op.path, now).ret
                     = procesar_cfdi_completo(op.impl, fs, op.path, now).ret

\* every extractor has been invoked on the tree with nested taxes, one of
\* them more than once, and datos_generales, the first of the dict display,
\* was invoked last
C24_Witness ==
    /\ HoldsTree /\ op.impl = "cfdi_tool"
    /\ root.doc = NestedTaxDoc
    /\ AllInvoked
    /\ salidas.llamadas > Cardinality(DOMAIN salidas.outs)
    /\ op.name = "datos_generales"
    /\ \A k \in DOMAIN salidas.outs : salidas.outs[k].ok
    /\ Len(salidas.outs["impuestos"].val.traslados) = 5

-----------------------------------------------------------------------------
(* C25: in every record procesar_cfdi_completo (of cfdi_tool) returns,     *)
(* impuestos.traslados at the root level is the sequence of all 4.0        *)
(* Traslado elements below the root, in document order, and likewise       *)
(* impuestos.retenciones; the traslados (retenciones) of every line item   *)
(* are a run of that sequence, in the same order, and the root-level       *)
(* sequence holds besides them the tax entries outside the line items.     *)

\* part is the run of whole that starts after the first skip entries
RunOf(part, whole, skip) ==
    /\ skip + Len(part) <= Len(whole)
    /\ \A k \in 1..Len(part) : part[k] = whole[skip + k]

\* the elements of S before element c in document order
Before(S, c) == {j \in S : j < c}

\* the 4.0 elements with this tag below no line item
OutsideItems(tag) ==
    Below(1, cfd4, tag) \ UNION {Below(c, cfd4, tag) : c \in PreferredLineItems}

\* the number of tax dicts of this kind in the line items
RECURSIVE KindCount(_, _)
KindCount(conceptos, kind) ==
    IF conceptos = <<>> THEN 0
    ELSE Len(Head(conceptos).impuestos[kind]) + KindCount(Tail(conceptos), kind)

RootHoldsItems(kind, tag) ==
    /\ ListsExactly(ret.val.impuestos[kind], Below(1, cfd4, tag))
    /\ \A i \in 1..Len(ret.val.conceptos) :
          RunOf(ret.val.conceptos[i].impuestos[kind], ret.val.impuestos[kind],
                Cardinality(Before(Below(1, cfd4, tag), Nth(PreferredLineItems, i))))
    /\ Len(ret.val.impuestos[kind]) =
          KindCount(ret.val.conceptos, kind) + Cardinality(OutsideItems(tag))

C25_RootTaxesHoldItemTaxes ==
    (Assembled /\ op.impl = "cfdi_tool") =>
        /\ RootHoldsItems("traslados", "Traslado")
        /\ RootHoldsItems("retenciones", "Retencion")

\* the record of the tree with nested taxes: five Traslado at the root
\* level, the three of the first line item, the one of the second and the
\* one of the document; three Retencion, the last the document's
C25_Witness ==
    /\ Assembled /\ op.impl = "cfdi_tool"
    /\ TheDoc = NestedTaxDoc
    /\ Len(ret.val.impuestos.traslados) = 5
    /\ Len(ret.val.conceptos[1].impuestos.traslados) = 3
    /\ ret.val.conceptos[2].impuestos.traslados = <<ret.val.impuestos.traslados[4]>>
    /\ ret.val.impuestos.traslados[5].importe = PyFloat(48, 0)
    /\ OutsideItems("Traslado") # {}
    /\ Len(ret.val.impuestos.retenciones) = 3
    /\ ret.val.impuestos.retenciones[3].importe = PyFloat(9, 0)

-----------------------------------------------------------------------------
(* C26 (as stated): at every level of the payments complement (the Pagos   *)
(* container, Pago, DoctoRelacionado, ImpuestosDR, TrasladoDR) the         *)
(* elements of generation 2.0 are the ones used whenever at least one      *)
(* matches at that level; those of generation 1.0 are used only when none  *)
(* of generation 2.0 matches, and the two are never merged.                *)

\* the container the claim settles on: the first of generation 2.0 in the
\* tree, else the first of generation 1.0, else none
ContainerByGeneration ==
    IF Gen(1, "Pagos") = {} THEN NoElement ELSE Lowest(Gen(1, "Pagos"))

C26_GenerationAllOrNothing ==
    (op.name = "complementos" /\ op.impl = "cfdi_tool" /\ OnXml /\ ret.ok) =>
        IF ContainerByGeneration = NoElement
        THEN "pagos" \notin DOMAIN ret.val
        ELSE /\ "pagos" \in DOMAIN ret.val
             /\ PagosListed(ret.val.pagos, Gen(ContainerByGeneration, "Pago"))

-----------------------------------------------------------------------------
(* C27 (as stated): a batch driver with a graphical interface              *)
(* (run_processing, process_files) ends in its success report only if      *)
(* exportar_a_excel wrote the report file; when the write of the Excel     *)
(* file fails it ends in its error report.                                 *)

ReportFileWritten == fs[ruta_salida].kind = "xlsx"

\* the driver called exportar_a_excel and the write failed
WriteFailed ==
    op.name = "exportar_a_excel" /\ stdout = "Error al escribir el archivo Excel"

C27_SuccessOnlyIfWritten ==
    driver \in CountingDrivers =>
        /\ phase = "success" => ReportFileWritten
        /\ WriteFailed => phase = "error"

-----------------------------------------------------------------------------
(* C28: in the Tk application the process button is enabled exactly when   *)
(* an input folder is set, an output folder is set, is_processing is false *)
(* and process_finished is false; this holds after every handler           *)
(* (browse_input, browse_output, start_processing_thread, _finish_process) *)
(* in any order of events, so after a successful run the button stays      *)
(* disabled until a folder is selected again.                              *)

ButtonShouldBeEnabled ==
    /\ app.input_path # "" /\ app.output_path # ""
    /\ ~app.is_processing /\ ~app.process_finished

C28_ButtonEnabledIff ==
    app.btn_process = "normal" <=> ButtonShouldBeEnabled

\* a run ended with success and _finish_process has run: both folders are
\* set and the button is disabled
C28_Witness ==
    /\ app.handler = "_finish_process"
    /\ app.process_finished
    /\ ~app.is_processing
    /\ app.input_path # "" /\ app.output_path # ""
    /\ app.btn_process = "disabled"
    /\ fs[ruta_salida] # MissingFile

-----------------------------------------------------------------------------
(* C29: in the Tk application, for every interleaving of user events and   *)
(* worker callbacks, at most one run_processing worker is active at any    *)
(* time: a new worker is started only while is_processing is false, and    *)
(* is_processing returns to false only after the active worker has issued  *)
(* its final update, on every one of its exits (no XML files, no valid     *)
(* data, success, exception).  A worker is active from Thread.start() to   *)
(* its call of final_update.                                               *)

NoWorkerActive == app.workers = 0 /\ phase = "stopped"

AtMostOneWorker ==
    /\ app.workers <= 1
    /\ phase # "overlap"
    /\ ~app.is_processing => NoWorkerActive

WorkerStarted == app'.workers > app.workers

FlagCleared == app.is_processing /\ ~app'.is_processing

StartedOnlyWhileIdle ==
    /\ WorkerStarted => ~app.is_processing /\ NoWorkerActive
    /\ FlagCleared => NoWorkerActive

C29_AtMostOneWorker == []AtMostOneWorker /\ [][StartedOnlyWhileIdle]_vars

\* a second worker runs after the first one ended and the button was
\* enabled again
C29_Witness ==
    /\ app.runs = 2
    /\ app.workers = 1
    /\ app.is_processing
    /\ phase = "loop"

-----------------------------------------------------------------------------
(* C30: in the Flet application, while a process_files run is in progress  *)
(* (from disabling the button at its start until its finally block) the    *)
(* process button stays disabled for every interleaving with               *)
(* on_input_changed and on_output_changed events, so two process_files     *)
(* runs never overlap; and whenever the button is enabled both             *)
(* carpeta_input and carpeta_output are set.                               *)

DisabledWhileRunning == app.en_curso > 0 => app.btn_procesar_disabled

RunsNeverOverlap == app.en_curso <= 1 /\ phase # "overlap"

EnabledOnlyWithFolders ==
    ~app.btn_procesar_disabled =>
        app.carpeta_input # PyNone /\ app.carpeta_output # PyNone

C30_ButtonDisabledWhileRunning ==
    /\ DisabledWhileRunning
    /\ RunsNeverOverlap
    /\ EnabledOnlyWithFolders

====
